---- MODULE Spec2Model ----
(***************************************************************************)
(* DependViz: the Java CodeGraph (get-or-create graph model), its JSON     *)
(* serialization, the JavaScript analyzer's per-file graph, the            *)
(* extension's mergeGraphData merge engine, the language server's per-path *)
(* graph cache, the stages of AnalysisEngine.analyzeFile, the project      *)
(* sweep of JavaAnalyzer.analyze, and the extension host: its handlers on  *)
(* the JavaScript thread, the WebviewBridge, the ConfigurationSubject, the  *)
(* queue of data updates and the versioned data sync with the webview; and *)
(* the webview: its rendering strategies, the slice and the filter.        *)
(***************************************************************************)
EXTENDS Integers, Sequences, FiniteSets, TLC

(***************************************************************************)
(* Bounds of the model.                                                    *)
(***************************************************************************)
\* CodeGraph operations performed over one behaviour
MaxOps == 4
\* analysis results handed to the extension over one behaviour
MaxLoads == 2
\* getFileDependencyGraph requests in flight at once
MaxTasks == 1
\* CodeGraphs the analysis engine returns over one behaviour
MaxRuns == 2
\* references of one compilation unit that do not resolve
MaxUnresolved == 2
\* Java files one project sweep finds
MaxSweepFiles == 2
\* webviews the view is resolved with over one behaviour
MaxWebviews == 3
\* messages passed to WebviewBridge.send over one behaviour
MaxSends == 6
\* saves of the configuration over one behaviour
MaxSaves == 1
\* graph instances the rendering strategies create over one behaviour
MaxGraphs == 3
\* links of the graph a slice is computed over
MaxSliceLinks == 3
\* largest sliceDepth of the controls
MaxSliceDepth == 2
\* links of the graph the filter is applied to
MaxFilterLinks == 2
\* handleDataUpdate calls over one behaviour
MaxUpdates == 4
\* graphs merged into or set as the data of the provider over one behaviour
MaxVersions == 3
\* webviews the view is resolved with in the model of the data sync
MaxViews == 2
\* messages waiting in the queue and the channel together
MaxPending == 3

(***************************************************************************)
(* Value universes.                                                        *)
(***************************************************************************)
\* fully-qualified class names the Java stages hand to CodeGraph
ClassNames == {"A", "B"}
\* GraphNode.type values written by ClassTypeStage (a subset of the five)
ClassTypes == {"Class", "Interface"}
\* edge types written by the Java stages (a subset of the five)
EdgeTypes == {"TypeUse", "Extends"}
\* values of calculateLinesOfCode handed to setNodeLinesOfCode
LocValues == {1, 2}
\* storage paths handed to setNodeFilePath
JavaPaths == {"/A.java", "/B.java"}
\* a Java null / JavaScript null reference in a string-typed field
Null == "<null>"
\* no compilation unit: no analysis run is in progress
NoUnit == [decl |-> Null, path |-> Null]

\* workspace-relative paths of the JavaScript files of the workspace
JsFiles == {"a.js", "a.js-Import-a.js"}
\* the file each JavaScript file imports (import './<other>')
JsImport(f) == IF f = "a.js" THEN "a.js-Import-a.js" ELSE "a.js"
\* number of lines of each JavaScript file
JsLines(f) == IF f = "a.js" THEN 1 ELSE 2
\* absolute path of a workspace file
JsAbsolute(f) == "/ws/" \o f

\* document URIs the client sends (vscode.Uri.file(path).toString()), as the
\* scheme with its authority, the path up to the extension, and the extension
Uris == {<<"file://", "/ws/D", ".java">>,
         <<"file://", "/ws/F", ".java">>,
         <<"file://", "/ws/pom", ".xml">>}
\* URI.create(uri).getPath(): the URI without its scheme and authority
getPath(uri) == SubSeq(uri, 2, Len(uri))
\* uri.endsWith(suffix), for a suffix that is an extension
endsWith(uri, suffix) == Len(uri) > 0 /\ uri[Len(uri)] = suffix
\* the file paths the service can be asked about
Paths == {getPath(uri) : uri \in Uris}
\* no file path
NoPath == <<>>
\* graphCache.get(filePath) == null; a response of {"nodes": [], "links": []}
NoGraph == [path |-> NoPath, run |-> 0]
\* the bucket of a key in a HashMap of the default capacity 16:
\* (h ^ (h >>> 16)) & 15 for h = String.hashCode(); "/ws/D.java" and "/ws/F.java"
\* both fall into bucket 10, "/ws/pom.xml" into bucket 3
hashIndex(path) == IF path = <<"/ws/pom", ".xml">> THEN 3 ELSE 10
\* the thread that reads the messages and runs the notification handlers
MessageThread == 0
\* the message thread and the pool threads that run getFileDependencyGraph bodies
Threads == 0..MaxTasks
\* the buckets the paths fall into
Buckets == {hashIndex(p) : p \in Paths}
\* no node of the map
NoNode == [key |-> NoPath, value |-> NoGraph, next |-> 0]
\* a thread that runs no handler
Idle == [pc |-> "idle", kind |-> "", path |-> NoPath, graph |-> NoGraph,
         mode |-> "", node |-> 0, analysis |-> "none", result |-> NoGraph]
\* the record of the step the server took last
Event(kind, path, analysis, graph) ==
  [kind |-> kind, path |-> path, analysis |-> analysis, graph |-> graph,
   response |-> Null]

VARIABLES
  cu,        \* the compilation unit under analysis: its declaration and storage path
  cg,        \* codeGraph: the CodeGraph of the analysis run in progress (Java)
  phase,     \* "idle", "analysing" (stages run), "received" (graphData awaits its merge)
  opsDone,   \* CodeGraph operations performed so far
  heap,      \* the JavaScript node objects, by address
  resp,      \* graphData: the analysis result last received by the extension
  loads,     \* analysis results received so far
  data,      \* GraphViewProvider._data
  dataVersion, \* GraphViewProvider._dataVersion
  analysisEngine, \* DependVizTextDocumentService.analysisEngine is set (not null)
  graphCache,     \* DependVizTextDocumentService.graphCache: path -> CodeGraph
  runs,           \* CodeGraphs the analysis engine has returned so far
  threads,        \* what each thread of the server is doing
  ev,             \* the step the server took last
  staleTasks,     \* the pool threads whose request was in progress when its path was closed
  unit,           \* AnalysisEngine.analyzeFile: the file given and, once parsed, cu
  codeGraph,      \* AnalysisEngine.analyzeFile: codeGraph
  ran,            \* the stages whose process was called, in order
  invoked,        \* the processNode calls of the default stage runner, in order
  outcome,        \* "idle", "running", "returned" or "thrown"
  thrownBy,       \* what threw out of analyzeFile: "", "parse" or a stage
  stages,         \* AnalysisEngine.stages
  servicePc,      \* the request of the file: "engine", "reget", "answered", "merged"
  stored,         \* what graphCache holds for the file
  response,       \* the answer to the request of the file
  received,       \* the extension's graph, into which the answer is merged
  javaFiles,      \* JavaAnalyzer.analyze: javaFiles, as file paths
  sweepPc,        \* JavaAnalyzer.analyze: "idle", "loop", "await", "done", "failed"
  sweepI,         \* JavaAnalyzer.analyze: i, from 1
  sweepHeap,      \* the node objects of the graphs the sweep parsed
  mergedGraph,    \* JavaAnalyzer.analyze: mergedGraph
  successCount,   \* JavaAnalyzer.analyze: successCount
  errorCount,     \* JavaAnalyzer.analyze: errorCount
  attempts,       \* the files the loop has tried, each with how it ended
  jsThread,       \* the handler that holds the JavaScript thread, or none
  taskPc,         \* where each merging handler is
  merging,        \* the handler whose mergeGraphData call is under way on a target
  touched,        \* the handler that ran last and the graph it touched
  sweepLeft,      \* the files the sweep has still to analyse
  webview,        \* WebviewBridge._webview
  bridgeReady,    \* WebviewBridge._ready
  queue,          \* WebviewBridge._queue, the messages by their number
  posted,         \* the postMessage calls, in order
  listening,      \* the webviews that carry a listener of the bridge
  reported,       \* the webviews that have posted their ready message
  sendLog,        \* for each message passed to send, the webview then attached
  observers,      \* ConfigurationSubject._observers, in the order of insertion
  attachCalls,    \* for each observer, the attach calls since its last detach
  configuration,  \* the stored configuration, by the number of its saves
  updates,        \* the update calls of the latest notifyAll call
  saved,          \* updateControls has saved and has still to notify
  strategy,       \* GraphViewContext._strategy
  graphInstance,  \* GraphViewContext._graph: null, or the strategy that created it
  viewCall,       \* the call made last: its name, its argument, what it returned, the state before
  graphsCreated,  \* the graph instances the strategies have created so far
  sliceInput,     \* _computeSlice: the focused node, the controls and the links given
  sliceResult,    \* _computeSlice: sliceNodes and sliceLinks, or that they are null
  filterInput,    \* updateGraph: the nodes and links of the model and the controls
  filterOutput,   \* _applyFilter: the nodes and links handed to the renderer
  updateQueue,    \* GraphViewProvider._updateQueue
  updating,       \* GraphViewProvider._updating
  drains,         \* the drain loops that await their _applyDataUpdate call
  submitted,      \* the updates handleDataUpdate was called with, in order
  applied,        \* the updates _applyDataUpdate was called with, in order
  dataObjects,    \* the graph objects of the provider, by address: what each holds
  dataRef,        \* GraphViewProvider._data: the address of the current graph object
  providerVersion,\* GraphViewProvider._dataVersion
  viewCount,      \* the webviews the view was resolved with; the last one is attached
  readySent,      \* the webviews whose ready message the provider has handled
  syncReady,      \* WebviewBridge._ready
  syncQueue,      \* WebviewBridge._queue: messages that refer to a graph object
  channel,        \* the messages posted to the attached webview and not yet handled
  modelVersion,   \* GraphModel._version of the attached webview
  modelData,      \* what the GraphModel of the attached webview holds
  setCall         \* the last call of setGraphData: its argument, whether it threw, whether it changed anything

\* the variables of the graph model and the merge engine
mergeVars == <<cu, cg, phase, opsDone, heap, resp, loads, data, dataVersion>>
\* the variables of the language server's request service
cacheVars == <<analysisEngine, graphCache, runs, threads, ev, staleTasks>>
\* the variables of one AnalysisEngine.analyzeFile call
pipelineVars == <<unit, codeGraph, ran, invoked, outcome, thrownBy, stages, servicePc,
                 stored, response, received>>
\* the variables of one JavaAnalyzer.analyze call
sweepVars == <<javaFiles, sweepPc, sweepI, sweepHeap, mergedGraph, successCount,
               errorCount, attempts>>
\* the variables of the handlers on the JavaScript thread
loopVars == <<jsThread, taskPc, merging, touched, sweepLeft>>
\* the variables of the WebviewBridge and its webviews
bridgeVars == <<webview, bridgeReady, queue, posted, listening, reported, sendLog>>
\* the variables of the ConfigurationSubject
subjectVars == <<observers, attachCalls, configuration, updates, saved>>
\* the variables of the GraphViewContext of the webview
viewVars == <<strategy, graphInstance, viewCall, graphsCreated>>
\* the variables of the dependency slice of the webview
sliceVars == <<sliceInput, sliceResult>>
\* the variables of the filter of the rendered graph
filterVars == <<filterInput, filterOutput>>
\* the variables of the update queue of GraphViewProvider
queueVars == <<updateQueue, updating, drains, submitted, applied>>
\* the variables of the data the provider sends and the model of the webview
syncVars == <<dataObjects, dataRef, providerVersion, viewCount, readySent, syncReady, syncQueue,
              channel, modelVersion, modelData, setCall>>
\* the variables of the extension host
hostVars == <<loopVars, bridgeVars, subjectVars, viewVars, sliceVars, filterVars, queueVars, syncVars>>
vars == <<mergeVars, cacheVars, pipelineVars, sweepVars, hostVars>>
\* what the steps of each part leave alone
exceptMerge == <<cacheVars, pipelineVars, sweepVars, hostVars>>
exceptCache == <<mergeVars, pipelineVars, sweepVars, hostVars>>
exceptPipeline == <<mergeVars, cacheVars, sweepVars, hostVars>>
exceptSweep == <<mergeVars, pipelineVars, hostVars>>
exceptLoop ==
  <<mergeVars, cacheVars, pipelineVars, sweepVars, bridgeVars,
    subjectVars, viewVars, sliceVars, filterVars, queueVars, syncVars>>
exceptBridge ==
  <<mergeVars, cacheVars, pipelineVars, sweepVars, loopVars,
    subjectVars, viewVars, sliceVars, filterVars, queueVars, syncVars>>
exceptSubject ==
  <<mergeVars, cacheVars, pipelineVars, sweepVars, loopVars,
    bridgeVars, viewVars, sliceVars, filterVars, queueVars, syncVars>>
exceptView ==
  <<mergeVars, cacheVars, pipelineVars, sweepVars, loopVars,
    bridgeVars, subjectVars, sliceVars, filterVars, queueVars, syncVars>>
exceptSlice ==
  <<mergeVars, cacheVars, pipelineVars, sweepVars, loopVars,
    bridgeVars, subjectVars, viewVars, filterVars, queueVars, syncVars>>
exceptFilter ==
  <<mergeVars, cacheVars, pipelineVars, sweepVars, loopVars,
    bridgeVars, subjectVars, viewVars, sliceVars, queueVars, syncVars>>
exceptQueue ==
  <<mergeVars, cacheVars, pipelineVars, sweepVars, loopVars,
    bridgeVars, subjectVars, viewVars, sliceVars, filterVars, syncVars>>
exceptSync ==
  <<mergeVars, cacheVars, pipelineVars, sweepVars, loopVars,
    bridgeVars, subjectVars, viewVars, sliceVars, filterVars, queueVars>>

(***************************************************************************)
(* GraphNode, GraphEdge, CodeGraph (Java).                                 *)
(***************************************************************************)
\* new GraphNode(nodeName): id = nodeName, type "Unknown", linesOfCode -1, filePath null
NewGraphNode(nodeName) ==
  [nodeName |-> nodeName, id |-> nodeName, type |-> "Unknown",
   linesOfCode |-> -1, filePath |-> Null]

\* new CodeGraph()
EmptyCodeGraph == [graphNodes |-> <<>>, graphEdges |-> <<>>]

\* index of the first node named className, 0 for null
findGraphNode(g, className) ==
  IF \E i \in 1..Len(g.graphNodes) : g.graphNodes[i].nodeName = className
  THEN CHOOSE i \in 1..Len(g.graphNodes) :
         /\ g.graphNodes[i].nodeName = className
         /\ \A j \in 1..(i - 1) : g.graphNodes[j].nodeName # className
  ELSE 0

\* the graph after getOrCreate(className)
getOrCreate(g, className) ==
  IF findGraphNode(g, className) = 0
  THEN [g EXCEPT !.graphNodes = Append(@, NewGraphNode(className))]
  ELSE g

\* findEdge that never finds an edge
findEdge_Never(g, source, target, edgeType) == 0

\* index of the first edge (source, target, edgeType), 0 for null;
\* GraphNode has no equals(), so nodes compare by reference (their index)
findEdge(g, source, target, edgeType) ==
  IF \E i \in 1..Len(g.graphEdges) :
       g.graphEdges[i] = [sourceNode |-> source, targetNode |-> target, type |-> edgeType]
  THEN CHOOSE i \in 1..Len(g.graphEdges) :
         g.graphEdges[i] = [sourceNode |-> source, targetNode |-> target, type |-> edgeType]
  ELSE 0

\* the graph after getOrCreateEdge(source, target, edgeType)
getOrCreateEdge(g, source, target, edgeType) ==
  IF findEdge(g, source, target, edgeType) = 0
  THEN [g EXCEPT !.graphEdges =
          Append(@, [sourceNode |-> source, targetNode |-> target, type |-> edgeType])]
  ELSE g

\* the graph after addReferNode(className, referClassName, edgeType)
addReferNode(g, className, referClassName, edgeType) ==
  LET g1 == getOrCreate(g, className)
      g2 == getOrCreate(g1, referClassName)
  IN  getOrCreateEdge(g2, findGraphNode(g2, className),
                      findGraphNode(g2, referClassName), edgeType)

\* setNodeType that leaves a node that has a type as it is
setNodeType_Once(g, className, type) ==
  LET g1 == getOrCreate(g, className)
  IN  IF g1.graphNodes[findGraphNode(g1, className)].type # "Unknown" THEN g1
      ELSE [g1 EXCEPT !.graphNodes[findGraphNode(g1, className)].type = type]

\* setNodeType that writes only to a node the graph holds already
setNodeType_IfPresent(g, className, type) ==
  IF findGraphNode(g, className) = 0 THEN g
  ELSE [g EXCEPT !.graphNodes[findGraphNode(g, className)].type = type]

\* the graph after setNodeType(className, type)
setNodeType(g, className, type) ==
  LET g1 == getOrCreate(g, className)
  IN  [g1 EXCEPT !.graphNodes[findGraphNode(g1, className)].type = type]

\* the graph after setNodeLinesOfCode(className, linesOfCode)
setNodeLinesOfCode(g, className, linesOfCode) ==
  LET g1 == getOrCreate(g, className)
  IN  [g1 EXCEPT !.graphNodes[findGraphNode(g1, className)].linesOfCode = linesOfCode]

\* the graph after setNodeFilePath(className, filePath)
setNodeFilePath(g, className, filePath) ==
  LET g1 == getOrCreate(g, className)
  IN  [g1 EXCEPT !.graphNodes[findGraphNode(g1, className)].filePath = filePath]

(***************************************************************************)
(* Serialization of a CodeGraph and the analysis results of the            *)
(* JavaScript analyzer: a graph as JSON text carries it, before the        *)
(* extension holds it as objects.                                          *)
(***************************************************************************)
\* toJsonObject(codeGraph): NodeJson and LinkJson of every node and edge
toJsonObject(g) ==
  [nodes |-> [i \in 1..Len(g.graphNodes) |->
                [id |-> g.graphNodes[i].id,
                 name |-> g.graphNodes[i].nodeName,
                 type |-> g.graphNodes[i].type,
                 linesOfCode |-> g.graphNodes[i].linesOfCode,
                 filePath |-> g.graphNodes[i].filePath]],
   links |-> [i \in 1..Len(g.graphEdges) |->
                [source |-> g.graphNodes[g.graphEdges[i].sourceNode].id,
                 target |-> g.graphNodes[g.graphEdges[i].targetNode].id,
                 type |-> g.graphEdges[i].type]]]

\* _createNode(filePath, content, workspaceFolder)
createNode(f) ==
  [id |-> f, name |-> f, type |-> "File",
   linesOfCode |-> JsLines(f), filePath |-> JsAbsolute(f)]

\* JavaScriptAnalyzer.analyzeFile(filePath): _processFile on a fresh nodeMap and
\* links, for a file with one resolvable import
jsAnalyzeFile(f) ==
  [nodes |-> IF JsImport(f) = f THEN <<createNode(f)>>
             ELSE <<createNode(f), createNode(JsImport(f))>>,
   links |-> <<[source |-> f, target |-> JsImport(f), type |-> "Import"]>>]

(***************************************************************************)
(* JavaScript graph data: node objects live in the heap and a graph holds  *)
(* references to them; a link end is a bare id or a reference to a node.   *)
(***************************************************************************)
\* link.source / link.target given as the id
BareEnd(id) == [obj |-> FALSE, id |-> id, addr |-> 0]
\* link.source / link.target given as the node object
ObjEnd(a) == [obj |-> TRUE, id |-> "", addr |-> a]

\* { nodes: [], links: [] }
EmptyGraph == [nodes |-> <<>>, links |-> <<>>]

\* the heap after JSON.parse allocated the node objects of json
parseHeap(h, json) == h \o json.nodes

\* the graph JSON.parse returns for json, its nodes allocated after heap h
parseGraph(h, json) ==
  [nodes |-> [i \in 1..Len(json.nodes) |-> Len(h) + i],
   links |-> [i \in 1..Len(json.links) |->
                [source |-> BareEnd(json.links[i].source),
                 target |-> BareEnd(json.links[i].target),
                 type |-> json.links[i].type]]]

(***************************************************************************)
(* mergeGraphData(target, source).                                         *)
(***************************************************************************)
\* !value of a filePath: null and the empty string are falsy
Falsy(filePath) == filePath = Null \/ filePath = ""

\* nodeMap.get that never finds a node
nodeMapGet_Miss(h, nodes, id) == 0

\* nodeMap.get(id) over the nodes seen so far: the address last set for id, 0 for
\* undefined (nodeMap.set overwrites, and every pushed node is set)
nodeMapGet(h, nodes, id) ==
  IF \E i \in 1..Len(nodes) : h[nodes[i]].id = id
  THEN nodes[CHOOSE i \in 1..Len(nodes) :
               /\ h[nodes[i]].id = id
               /\ \A j \in (i + 1)..Len(nodes) : h[nodes[j]].id # id]
  ELSE 0

\* refineNode that assigns the type without its guard
refineNode_TypeUnguarded(existingNode, newNode) ==
  LET t1 == [existingNode EXCEPT !.type = newNode.type]
      t2 == IF t1.linesOfCode = -1 /\ newNode.linesOfCode # -1
            THEN [t1 EXCEPT !.linesOfCode = newNode.linesOfCode]
            ELSE t1
  IN  IF Falsy(t2.filePath) /\ ~Falsy(newNode.filePath)
      THEN [t2 EXCEPT !.filePath = newNode.filePath]
      ELSE t2

\* refineNode that overwrites linesOfCode whenever the source has measured it
refineNode_LocOverwrite(existingNode, newNode) ==
  LET t1 == IF existingNode.type = "Unknown" /\ newNode.type # "Unknown"
            THEN [existingNode EXCEPT !.type = newNode.type]
            ELSE existingNode
      t2 == IF newNode.linesOfCode # -1
            THEN [t1 EXCEPT !.linesOfCode = newNode.linesOfCode]
            ELSE t1
  IN  IF Falsy(t2.filePath) /\ ~Falsy(newNode.filePath)
      THEN [t2 EXCEPT !.filePath = newNode.filePath]
      ELSE t2

\* refineNode that forgets the filePath
refineNode_NoFilePath(existingNode, newNode) ==
  LET t1 == IF existingNode.type = "Unknown" /\ newNode.type # "Unknown"
            THEN [existingNode EXCEPT !.type = newNode.type]
            ELSE existingNode
  IN  IF t1.linesOfCode = -1 /\ newNode.linesOfCode # -1
      THEN [t1 EXCEPT !.linesOfCode = newNode.linesOfCode]
      ELSE t1

\* the existing node after the three guarded assignments from newNode
refineNode(existingNode, newNode) ==
  LET t1 == IF existingNode.type = "Unknown" /\ newNode.type # "Unknown"
            THEN [existingNode EXCEPT !.type = newNode.type]
            ELSE existingNode
      t2 == IF t1.linesOfCode = -1 /\ newNode.linesOfCode # -1
            THEN [t1 EXCEPT !.linesOfCode = newNode.linesOfCode]
            ELSE t1
  IN  IF Falsy(t2.filePath) /\ ~Falsy(newNode.filePath)
      THEN [t2 EXCEPT !.filePath = newNode.filePath]
      ELSE t2

\* a forEach over source.nodes that pushes no node
mergeNodes_NoPush(h, nodes, srcNodes, i) == [heap |-> h, nodes |-> nodes]

\* source.nodes.forEach from position i on: the heap and target.nodes after it
RECURSIVE mergeNodes(_, _, _, _)
mergeNodes(h, nodes, srcNodes, i) ==
  IF i > Len(srcNodes) THEN [heap |-> h, nodes |-> nodes]
  ELSE LET newNode == srcNodes[i]
           existingNode == nodeMapGet(h, nodes, h[newNode].id)
       IN  IF existingNode = 0
           THEN mergeNodes(h, Append(nodes, newNode), srcNodes, i + 1)
           ELSE mergeNodes([h EXCEPT ![existingNode] = refineNode(@, h[newNode])],
                           nodes, srcNodes, i + 1)

\* an end taken as it is: a node object prints as [object Object]
endId_Raw(h, end) == IF end.obj THEN "[object Object]" ELSE end.id

\* typeof end === 'object' ? end.id : end
endId(h, end) == IF end.obj THEN h[end.addr].id ELSE end.id

\* linkKey(link): `${sourceId}-${link.type}-${targetId}`
linkKey(h, link) ==
  endId(h, link.source) \o "-" \o link.type \o "-" \o endId(h, link.target)

\* a key set that forgets the target's links
linkKeys_Empty(h, links) == {}

\* new Set(links.map(linkKey))
linkKeys(h, links) == {linkKey(h, links[i]) : i \in 1..Len(links)}

\* source.links.forEach from position i on: target.links after it
RECURSIVE mergeLinks(_, _, _, _)
mergeLinks(h, links, srcLinks, i) ==
  IF i > Len(srcLinks) THEN links
  ELSE IF linkKey(h, srcLinks[i]) \notin linkKeys(h, links)
       THEN mergeLinks(h, Append(links, srcLinks[i]), srcLinks, i + 1)
       ELSE mergeLinks(h, links, srcLinks, i + 1)

\* the heap and the target graph after mergeGraphData(target, source)
mergeGraphData(h, target, source) ==
  LET n == mergeNodes(h, target.nodes, source.nodes, 1)
  IN  [heap |-> n.heap,
       graph |-> [nodes |-> n.nodes,
                  links |-> mergeLinks(n.heap, target.links, source.links, 1)]]

(***************************************************************************)
(* graphCache: a java.util.HashMap<String, CodeGraph>, which is not        *)
(* synchronized.  The table is allocated by the first put; a bucket holds  *)
(* the head of a chain of nodes.  A put and a remove first read (the       *)
(* table, the bucket, the chain) and then write one reference; another     *)
(* thread's operation can come between the two.  The map stays far below   *)
(* its resize threshold of 12 entries.                                     *)
(***************************************************************************)
\* new HashMap<>(): no table yet
EmptyHashMap ==
  [table |-> FALSE,
   heads |-> [b \in Buckets |-> 0],
   nodes |-> [n \in 1..MaxRuns |-> NoNode]]
\* the first node with this key in the chain that starts at node n, 0 for none
RECURSIVE getNode(_, _, _)
getNode(cache, n, key) ==
  IF n = 0 THEN 0
  ELSE IF cache.nodes[n].key = key THEN n
  ELSE getNode(cache, cache.nodes[n].next, key)
\* the last node of the chain that starts at node n
RECURSIVE lastNode(_, _)
lastNode(cache, n) ==
  IF cache.nodes[n].next = 0 THEN n ELSE lastNode(cache, cache.nodes[n].next)
\* the node before node e in the chain that starts at node n
RECURSIVE prevNode(_, _, _)
prevNode(cache, n, e) ==
  IF cache.nodes[n].next = e THEN n ELSE prevNode(cache, cache.nodes[n].next, e)
\* graphCache.get(filePath)
cacheGet(cache, filePath) ==
  LET e == getNode(cache, cache.heads[hashIndex(filePath)], filePath)
  IN  IF e = 0 THEN NoGraph ELSE cache.nodes[e].value
\* what putVal finds for a key: no table, an empty bucket, the node of the key, or
\* the last node of the chain
putRead(cache, filePath) ==
  LET first == cache.heads[hashIndex(filePath)]
  IN  IF ~cache.table THEN [mode |-> "alloc", node |-> 0]
      ELSE IF first = 0 THEN [mode |-> "head", node |-> 0]
      ELSE IF getNode(cache, first, filePath) # 0
           THEN [mode |-> "update", node |-> getNode(cache, first, filePath)]
           ELSE [mode |-> "tail", node |-> lastNode(cache, first)]
\* the one write of putVal, on what it had found: table = newTab and tab[i] = newNode;
\* tab[i] = newNode; e.value = value; p.next = newNode
putWrite(cache, op) ==
  LET i == hashIndex(op.path)
      n == op.graph.run
      newNode == [key |-> op.path, value |-> op.graph, next |-> 0]
  IN  IF op.mode = "alloc"
      THEN [table |-> TRUE,
            heads |-> [b \in Buckets |-> IF b = i THEN n ELSE 0],
            nodes |-> [cache.nodes EXCEPT ![n] = newNode]]
      ELSE IF op.mode = "head"
      THEN [cache EXCEPT !.heads[i] = n, !.nodes[n] = newNode]
      ELSE IF op.mode = "update"
      THEN [cache EXCEPT !.nodes[op.node].value = op.graph]
      ELSE [cache EXCEPT !.nodes[op.node].next = n, !.nodes[n] = newNode]
\* what removeNode finds for a key: nothing, the head of the bucket, or a later node
removeRead(cache, filePath) ==
  LET first == cache.heads[hashIndex(filePath)]
      e == getNode(cache, first, filePath)
  IN  IF e = 0 THEN [mode |-> "none", node |-> 0]
      ELSE IF e = first THEN [mode |-> "first", node |-> e]
      ELSE [mode |-> "link", node |-> prevNode(cache, first, e)]
\* the one write of removeNode, on what it had found: tab[index] = node.next, or
\* p.next = node.next
removeWrite(cache, op) ==
  LET i == hashIndex(op.path)
  IN  IF op.mode = "none" THEN cache
      ELSE IF op.mode = "first"
      THEN [cache EXCEPT !.heads[i] = cache.nodes[op.node].next]
      ELSE [cache EXCEPT !.nodes[op.node].next =
                           cache.nodes[cache.nodes[op.node].next].next]
\* the CodeGraph the n-th successful analysis returns for a file: new CodeGraph()
\* is a new object every time
newCodeGraph(filePath, n) == [path |-> filePath, run |-> n]

(***************************************************************************)
(* The CodeGraph of an analysis run of the service and its serialization.  *)
(* A file declares one class and refers to nothing; every analysis finds   *)
(* the file one line longer than the analysis before it did.               *)
(***************************************************************************)
\* the fully-qualified name of the class a file declares
declaredClass(filePath) ==
  IF filePath[1] = "/ws/D" THEN "D" ELSE IF filePath[1] = "/ws/F" THEN "F" ELSE "pom"
\* Paths.get(filePath) as the string FilePathStage reads from the unit's storage
storagePath(filePath) == filePath[1] \o filePath[2]
\* the CodeGraph object graph after the stages ran: ClassTypeStage, LinesOfCodeStage
\* and FilePathStage on the one declaration
codeGraphOf(graph) ==
  setNodeFilePath(
    setNodeLinesOfCode(
      setNodeType(EmptyCodeGraph, declaredClass(graph.path), "Class"),
      declaredClass(graph.path), graph.run),
    declaredClass(graph.path), storagePath(graph.path))
\* "{\"nodes\": [], \"links\": []}"
EmptyResponse == [nodes |-> <<>>, links |-> <<>>]
\* the string the body of getFileDependencyGraph returns for its local graph
writeValueAsString(graph) ==
  IF graph = NoGraph THEN EmptyResponse ELSE toJsonObject(codeGraphOf(graph))

(***************************************************************************)
(* The analysis pipeline.  The file analysed is                            *)
(*   [abstract] class A extends Ext implements Impl1, Impl2, Impl3 {       *)
(*     F1 f1; F2 f2;                                                       *)
(*     Ret m(Param p) {                                                    *)
(*       Local l; c1(); c2(); c3(); new O1(); new O2();                    *)
(*       abstract class L1 {}  class L2 {}                                 *)
(*     }                                                                   *)
(*   }                                                                     *)
(*   interface I extends Sup1, Sup2, Sup3 {}                               *)
(*   class B implements Impl4 {}                                           *)
(*   enum E {}                                                             *)
(*   @interface N {}                                                       *)
(* or the file of the scenario,                                            *)
(*   class A extends B implements C { D field; void m(E p) { new F(); g(); } } *)
(* A file is given by whether it parses and by which of its references     *)
(* the symbol solver cannot resolve: resolve() throws for those.  The      *)
(* local classes L1 and L2 have no qualified name.                         *)
(***************************************************************************)
\* the stages of AnalysisEngine in pipeline order
Stages == <<"TypeUse", "MethodCall", "ObjectCreation", "Extends", "Implements",
            "ClassType", "LinesOfCode", "FilePath">>
\* the stages that keep BaseStage.process
DefaultRunnerStages == {"MethodCall", "ObjectCreation", "Extends", "Implements"}
\* the references of the file
References == {"f1", "f2", "ret", "param", "local", "c1", "c2", "c3", "o1", "o2",
               "ext", "impl1", "impl2", "impl3", "sup1", "sup2", "sup3", "impl4"}
\* the references of the file of the scenario: B, C, D field, void, E p, new F(), g()
ScenarioReferences == {"ext", "impl1", "f1", "ret", "param", "o1", "c1"}
\* the files analyzeFile can be given
Units == {u \in [parses : BOOLEAN, scenario : BOOLEAN, abstract : BOOLEAN,
                 unresolved : SUBSET References] :
            /\ Cardinality(u.unresolved) <= MaxUnresolved
            /\ u.scenario => ~u.abstract /\ u.unresolved \subseteq ScenarioReferences}
\* no file: analyzeFile has not been called
NoFile == [parses |-> FALSE, scenario |-> FALSE, abstract |-> FALSE, unresolved |-> {}]
\* the references among refs that file u has
present(u, refs) ==
  SelectSeq(refs, LAMBDA r : ~u.scenario \/ r \in ScenarioReferences)
\* the name a reference resolves to: describe() of a type (void for the return
\* type of the scenario), getQualifiedName() of a created type, or
\* getPackageName() + "." + getClassName() of a called method, the package being
\* the empty default package
targetOf(u, ref) ==
  IF u.scenario
  THEN CASE ref = "ext" -> "B" [] ref = "impl1" -> "C" [] ref = "f1" -> "D"
         [] ref = "ret" -> "void" [] ref = "param" -> "E" [] ref = "o1" -> "F"
         [] ref = "c1" -> ".B"
  ELSE CASE ref = "f1" -> "F1" [] ref = "f2" -> "F2" [] ref = "ret" -> "Ret"
         [] ref = "param" -> "Param" [] ref = "local" -> "Local"
         [] ref = "c1" -> ".C1" [] ref = "c2" -> ".C2" [] ref = "c3" -> ".C3"
         [] ref = "o1" -> "O1" [] ref = "o2" -> "O2" [] ref = "ext" -> "Ext"
         [] ref = "impl1" -> "Impl1" [] ref = "impl2" -> "Impl2"
         [] ref = "impl3" -> "Impl3" [] ref = "impl4" -> "Impl4"
         [] ref = "sup1" -> "Sup1" [] ref = "sup2" -> "Sup2" [] ref = "sup3" -> "Sup3"
\* getSourceClassName(node) of the expressions of the file, all inside A
DeclName == "A"
\* cu.findAll(ClassOrInterfaceDeclaration.class), EnumDeclaration,
\* AnnotationDeclaration: the declarations in document order
classOrInterfaces(u) == IF u.scenario THEN <<"A">> ELSE <<"A", "L1", "L2", "I", "B">>
enums(u) == IF u.scenario THEN <<>> ELSE <<"E">>
annotations(u) == IF u.scenario THEN <<>> ELSE <<"N">>
\* getFullyQualifiedName(decl): decl.getFullyQualifiedName().orElse("Unknown")
getFullyQualifiedName(decl) == IF decl \in {"L1", "L2"} THEN "Unknown" ELSE decl
\* determineClassType(decl)
determineClassType(u, decl) ==
  IF decl = "I" THEN "Interface"
  ELSE IF decl = "L1" \/ (decl = "A" /\ u.abstract) THEN "AbstractClass"
  ELSE "Class"
\* calculateLinesOfCode(decl): range.end.line - range.begin.line + 1
calculateLinesOfCode(u, decl) ==
  CASE decl = "A" -> IF u.scenario THEN 1 ELSE 8
    [] decl = "L1" -> 1 [] decl = "L2" -> 1 [] decl = "I" -> 1 [] decl = "B" -> 1
    [] decl = "E" -> 1 [] decl = "N" -> 1
\* cu.getStorage(): storage.getPath().toString()
storageOf(u) == "/A.java"
\* decl.getFields(), the types of decl.getMethods() (return type, then parameters),
\* the declarators of cu.findAll(VariableDeclarationExpr.class)
fieldsOf(u, decl) == IF decl = "A" THEN present(u, <<"f1", "f2">>) ELSE <<>>
methodTypesOf(u, decl) == IF decl = "A" THEN present(u, <<"ret", "param">>) ELSE <<>>
localsOf(u) == present(u, <<"local">>)
\* decl.getExtendedTypes(), decl.getImplementedTypes()
extendedTypesOf(u, decl) ==
  CASE decl = "A" -> present(u, <<"ext">>)
    [] decl = "I" -> present(u, <<"sup1", "sup2", "sup3">>)
    [] OTHER -> <<>>
implementedTypesOf(u, decl) ==
  CASE decl = "A" -> present(u, <<"impl1", "impl2", "impl3">>)
    [] decl = "B" -> present(u, <<"impl4">>)
    [] OTHER -> <<>>
\* extractNodes(cu) of a stage: cu.findAll(...) in document order
extractNodes(stage, u) ==
  CASE stage = "MethodCall" -> present(u, <<"c1", "c2", "c3">>)
    [] stage = "ObjectCreation" -> present(u, <<"o1", "o2">>)
    [] stage = "Extends" -> classOrInterfaces(u)
    [] stage = "Implements" -> classOrInterfaces(u)
    [] OTHER -> <<>>
\* the loop of ExtendsStage.processNode that stops at the first unresolved type
RECURSIVE addEachCaught_StopAtFirst(_, _, _, _, _, _)
addEachCaught_StopAtFirst(u, g, source, refs, i, edgeType) ==
  IF i > Len(refs) \/ refs[i] \in u.unresolved THEN g
  ELSE addEachCaught_StopAtFirst(u,
         addReferNode(g, source, targetOf(u, refs[i]), edgeType),
         source, refs, i + 1, edgeType)
\* a loop over references whose body is resolve() and addReferNode inside a try
\* block with an empty catch: an unresolved reference is skipped
RECURSIVE addEachCaught(_, _, _, _, _, _)
addEachCaught(u, g, source, refs, i, edgeType) ==
  IF i > Len(refs) THEN g
  ELSE addEachCaught(u,
         IF refs[i] \in u.unresolved THEN g
         ELSE addReferNode(g, source, targetOf(u, refs[i]), edgeType),
         source, refs, i + 1, edgeType)
\* the loop of ImplementsStage.processNode with the unresolved types skipped
RECURSIVE addEach_Skipping(_, _, _, _, _, _)
addEach_Skipping(u, g, source, refs, i, edgeType) ==
  IF i > Len(refs) THEN [graph |-> g, thrown |-> FALSE]
  ELSE addEach_Skipping(u,
         IF refs[i] \in u.unresolved THEN g
         ELSE addReferNode(g, source, targetOf(u, refs[i]), edgeType),
         source, refs, i + 1, edgeType)
\* the same loop with no try block: the first unresolved reference throws out of
\* the loop, with the graph as the references before it left it
RECURSIVE addEach(_, _, _, _, _, _)
addEach(u, g, source, refs, i, edgeType) ==
  IF i > Len(refs) THEN [graph |-> g, thrown |-> FALSE]
  ELSE IF refs[i] \in u.unresolved THEN [graph |-> g, thrown |-> TRUE]
  ELSE addEach(u, addReferNode(g, source, targetOf(u, refs[i]), edgeType),
               source, refs, i + 1, edgeType)
\* TypeUseStage.process, the loop over the classes with the field loop outside a
\* try block
RECURSIVE typeUseClasses_FieldsUncaught(_, _, _, _)
typeUseClasses_FieldsUncaught(u, g, decls, i) ==
  IF i > Len(decls) THEN [graph |-> g, thrown |-> FALSE]
  ELSE LET className == getFullyQualifiedName(decls[i])
           r1 == addEach(u, g, className, fieldsOf(u, decls[i]), 1, "TypeUse")
           r2 == addEach(u, r1.graph, className, methodTypesOf(u, decls[i]), 1,
                         "TypeUse")
       IN  IF r1.thrown THEN r1
           ELSE IF r2.thrown THEN r2
           ELSE typeUseClasses_FieldsUncaught(u, r2.graph, decls, i + 1)
\* TypeUseStage.process, the loop over the classes from class i on: the fields,
\* each in a try block, then the return type and the parameter types of the
\* methods, in none
RECURSIVE typeUseClasses(_, _, _, _)
typeUseClasses(u, g, decls, i) ==
  IF i > Len(decls) THEN [graph |-> g, thrown |-> FALSE]
  ELSE LET className == getFullyQualifiedName(decls[i])
           g1 == addEachCaught(u, g, className, fieldsOf(u, decls[i]), 1, "TypeUse")
           r2 == addEach(u, g1, className, methodTypesOf(u, decls[i]), 1, "TypeUse")
       IN  IF r2.thrown THEN r2
           ELSE typeUseClasses(u, r2.graph, decls, i + 1)
\* TypeUseStage.process with the loop over the fields outside a try block
typeUseProcess_FieldsUncaught(u, g) ==
  LET r == typeUseClasses_FieldsUncaught(u, g, classOrInterfaces(u), 1)
  IN  IF r.thrown THEN r
      ELSE addEach(u, r.graph, DeclName, localsOf(u), 1, "TypeUse")
\* TypeUseStage.process: the classes, then the local variables
typeUseProcess(u, g) ==
  LET r == typeUseClasses(u, g, classOrInterfaces(u), 1)
  IN  IF r.thrown THEN r
      ELSE addEach(u, r.graph, DeclName, localsOf(u), 1, "TypeUse")
\* processNode(node, codeGraph) of the stages that keep BaseStage.process
processNode(stage, u, g, node) ==
  CASE stage = "MethodCall" -> addEach(u, g, DeclName, <<node>>, 1, "MethodCall")
    [] stage = "ObjectCreation" -> addEach(u, g, DeclName, <<node>>, 1, "ObjectCreate")
    [] stage = "Extends" ->
         [graph |-> addEachCaught(u, g, getFullyQualifiedName(node),
                                  extendedTypesOf(u, node), 1, "Extends"),
          thrown |-> FALSE]
    [] stage = "Implements" ->
         addEach(u, g, getFullyQualifiedName(node), implementedTypesOf(u, node), 1,
                 "Implements")
\* BaseStage.process that lets the exception of processNode end the loop
RECURSIVE baseProcess_NoCatch(_, _, _, _, _, _)
baseProcess_NoCatch(stage, u, g, nodes, i, calls) ==
  IF i > Len(nodes) THEN [graph |-> g, thrown |-> FALSE, invoked |-> calls]
  ELSE LET r == processNode(stage, u, g, nodes[i])
       IN  IF r.thrown
           THEN [graph |-> r.graph, thrown |-> TRUE,
                 invoked |-> Append(calls, [stage |-> stage, node |-> nodes[i]])]
           ELSE baseProcess_NoCatch(stage, u, r.graph, nodes, i + 1,
                  Append(calls, [stage |-> stage, node |-> nodes[i]]))
\* BaseStage.process from node i on: processNode in a try block for every node,
\* handleError for one that throws
RECURSIVE baseProcess(_, _, _, _, _, _)
baseProcess(stage, u, g, nodes, i, calls) ==
  IF i > Len(nodes) THEN [graph |-> g, thrown |-> FALSE, invoked |-> calls]
  ELSE baseProcess(stage, u, processNode(stage, u, g, nodes[i]).graph, nodes, i + 1,
                   Append(calls, [stage |-> stage, node |-> nodes[i]]))
\* ClassTypeStage.process: the loop over the classes and interfaces from i on
RECURSIVE classTypeClasses(_, _, _, _)
classTypeClasses(u, g, decls, i) ==
  IF i > Len(decls) THEN g
  ELSE classTypeClasses(u,
         setNodeType(g, getFullyQualifiedName(decls[i]),
                  determineClassType(u, decls[i])),
         decls, i + 1)
\* ClassTypeStage.setNodeType(decls, codeGraph, type, nameResolver)
RECURSIVE setNodeTypes(_, _, _, _)
setNodeTypes(g, decls, i, type) ==
  IF i > Len(decls) THEN g
  ELSE setNodeTypes(setNodeType(g, getFullyQualifiedName(decls[i]), type),
                    decls, i + 1, type)
\* ClassTypeStage.process
classTypeProcess(u, g) ==
  setNodeTypes(
    setNodeTypes(classTypeClasses(u, g, classOrInterfaces(u), 1), enums(u), 1, "Enum"),
    annotations(u), 1, "Annotation")
\* LinesOfCodeStage.process: classes and interfaces, enums, annotations
RECURSIVE linesOfCodeProcess(_, _, _, _)
linesOfCodeProcess(u, g, decls, i) ==
  IF i > Len(decls) THEN g
  ELSE linesOfCodeProcess(u,
         setNodeLinesOfCode(g, getFullyQualifiedName(decls[i]),
                            calculateLinesOfCode(u, decls[i])),
         decls, i + 1)
\* FilePathStage.process: classes and interfaces, enums, annotations
RECURSIVE filePathProcess(_, _, _, _)
filePathProcess(u, g, decls, i) ==
  IF i > Len(decls) THEN g
  ELSE filePathProcess(u,
         setNodeFilePath(g, getFullyQualifiedName(decls[i]), storageOf(u)),
         decls, i + 1)
\* stage.process(cu, codeGraph) of the stage with this name
process(stage, u, g) ==
  CASE stage = "TypeUse" ->
         [graph |-> typeUseProcess(u, g).graph, thrown |-> typeUseProcess(u, g).thrown,
          invoked |-> <<>>]
    [] stage \in DefaultRunnerStages ->
         baseProcess(stage, u, g, extractNodes(stage, u), 1, <<>>)
    [] stage = "ClassType" ->
         [graph |-> classTypeProcess(u, g), thrown |-> FALSE, invoked |-> <<>>]
    [] stage = "LinesOfCode" ->
         [graph |-> linesOfCodeProcess(u, g,
                      classOrInterfaces(u) \o enums(u) \o annotations(u), 1),
          thrown |-> FALSE, invoked |-> <<>>]
    [] stage = "FilePath" ->
         [graph |-> filePathProcess(u, g,
                      classOrInterfaces(u) \o enums(u) \o annotations(u), 1),
          thrown |-> FALSE, invoked |-> <<>>]
\* createCompilationUnit that gives an empty unit for a file that does not parse
parseThrows_Never(u) == FALSE
\* createCompilationUnit: StaticJavaParser.parse throws for a file that does not parse
parseThrows(u) == ~u.parses

(***************************************************************************)
(* The initial state: no analysis has run, the view's graph and the   *)
(* cache are empty, the analysis engine is not set.                        *)
(***************************************************************************)
InitWith(stageList) ==
  /\ cu = NoUnit
  /\ cg = EmptyCodeGraph
  /\ phase = "idle"
  /\ opsDone = 0
  /\ heap = <<>>
  /\ resp = EmptyGraph
  /\ loads = 0
  /\ data = EmptyGraph
  /\ dataVersion = 0
  /\ analysisEngine = FALSE
  /\ graphCache = EmptyHashMap
  /\ staleTasks = {}
  /\ runs = 0
  /\ threads = [t \in Threads |-> Idle]
  /\ ev = Event("init", NoPath, "none", NoGraph)
  /\ unit = NoFile
  /\ codeGraph = EmptyCodeGraph
  /\ ran = <<>>
  /\ invoked = <<>>
  /\ outcome = "idle"
  /\ thrownBy = ""
  /\ stages = stageList
  /\ servicePc = "engine"
  /\ stored = [has |-> FALSE, graph |-> EmptyCodeGraph]
  /\ response = [sent |-> FALSE, json |-> EmptyResponse]
  /\ received = [heap |-> <<>>, graph |-> EmptyGraph]
  /\ javaFiles = <<>>
  /\ sweepPc = "idle"
  /\ sweepI = 1
  /\ sweepHeap = <<>>
  /\ mergedGraph = EmptyGraph
  /\ successCount = 0
  /\ errorCount = 0
  /\ attempts = <<>>
  /\ jsThread = "none"
  /\ taskPc = [t \in {"analyzeProject", "analyzeCurrentFile1", "analyzeCurrentFile2"} |-> "idle"]
  /\ merging = [g \in {"mergedGraph", "_data"} |-> "none"]
  /\ touched = [by |-> "none", target |-> "none", during |-> "none"]
  /\ sweepLeft = 0
  /\ webview = 0
  /\ bridgeReady = FALSE
  /\ queue = <<>>
  /\ posted = <<>>
  /\ listening = {}
  /\ reported = {}
  /\ sendLog = <<>>
  /\ observers = <<>>
  /\ attachCalls = [o \in {"settingsProvider", "filterProvider", "graphViewProvider"} |-> 0]
  /\ configuration = 0
  /\ updates = [calls |-> <<>>, expected |-> {}, loaded |-> 0]
  /\ saved = FALSE
  /\ strategy = "2d"
  /\ graphInstance = "<null>"
  /\ viewCall = [op |-> "new", name |-> "", returned |-> FALSE, strategyBefore |-> "2d", graphBefore |-> "<null>"]
  /\ graphsCreated = 0
  /\ sliceInput = [focus |-> "<null>", depth |-> 0, forward |-> FALSE, backward |-> FALSE, links |-> <<>>]
  /\ sliceResult = [isNull |-> TRUE, sliceNodes |-> {}, sliceLinks |-> {}]
  /\ filterInput = [nodes |-> <<>>, links |-> <<>>, nodeTypeMap |-> <<>>, edgeTypeMap |-> <<>>, hideIsolatedNodes |-> FALSE, search |-> <<>>]
  /\ filterOutput = [done |-> FALSE, nodes |-> <<>>, links |-> <<>>]
  /\ updateQueue = <<>>
  /\ updating = FALSE
  /\ drains = 0
  /\ submitted = <<>>
  /\ applied = <<>>
  /\ dataObjects = <<{}>>
  /\ dataRef = 1
  /\ providerVersion = 0
  /\ viewCount = 0
  /\ readySent = {}
  /\ syncReady = FALSE
  /\ syncQueue = <<>>
  /\ channel = <<>>
  /\ modelVersion = 0
  /\ modelData = {}
  /\ setCall = [called |-> FALSE, threw |-> FALSE, changed |-> FALSE,
                data |-> [kind |-> "object", nodes |-> "array", links |-> "array"]]

\* the state after construction: the engine holds the stages in the shipped order
Init == InitWith(Stages)

(***************************************************************************)
(* The language server: one analysis run writes one fresh CodeGraph.  The  *)
(* extension awaits each answer and merges it before it asks again.        *)
(***************************************************************************)
\* AnalysisEngine.analyzeFile: CodeGraph codeGraph = new CodeGraph(), and the
\* compilation unit parsed from the file
StartAnalysis ==
  /\ phase = "idle"
  /\ opsDone < MaxOps
  /\ loads < MaxLoads
  /\ cu' \in [decl : ClassNames, path : JavaPaths]
  /\ cg' = EmptyCodeGraph
  /\ phase' = "analysing"
  /\ UNCHANGED <<opsDone, heap, resp, loads, data, dataVersion>>
  /\ UNCHANGED exceptMerge

\* a stage calls codeGraph.addReferNode for a reference found in the declaration
AddReferNode ==
  /\ phase = "analysing"
  /\ opsDone < MaxOps
  /\ \E r \in ClassNames, t \in EdgeTypes : cg' = addReferNode(cg, cu.decl, r, t)
  /\ opsDone' = opsDone + 1
  /\ UNCHANGED <<cu, phase, heap, resp, loads, data, dataVersion>>
  /\ UNCHANGED exceptMerge

\* ClassTypeStage calls codeGraph.setNodeType for the declaration
SetNodeType ==
  /\ phase = "analysing"
  /\ opsDone < MaxOps
  /\ \E t \in ClassTypes : cg' = setNodeType(cg, cu.decl, t)
  /\ opsDone' = opsDone + 1
  /\ UNCHANGED <<cu, phase, heap, resp, loads, data, dataVersion>>
  /\ UNCHANGED exceptMerge

\* LinesOfCodeStage calls codeGraph.setNodeLinesOfCode for the declaration
SetNodeLinesOfCode ==
  /\ phase = "analysing"
  /\ opsDone < MaxOps
  /\ \E n \in LocValues : cg' = setNodeLinesOfCode(cg, cu.decl, n)
  /\ opsDone' = opsDone + 1
  /\ UNCHANGED <<cu, phase, heap, resp, loads, data, dataVersion>>
  /\ UNCHANGED exceptMerge

\* FilePathStage calls codeGraph.setNodeFilePath with the unit's storage path
SetNodeFilePath ==
  /\ phase = "analysing"
  /\ opsDone < MaxOps
  /\ cg' = setNodeFilePath(cg, cu.decl, cu.path)
  /\ opsDone' = opsDone + 1
  /\ UNCHANGED <<cu, phase, heap, resp, loads, data, dataVersion>>
  /\ UNCHANGED exceptMerge

(***************************************************************************)
(* The extension: an analysis result arrives and is merged.                *)
(***************************************************************************)
\* JavaAnalyzer.getFileDependencyGraph: the run has returned, the server answers
\* with toJsonObject of its graph and the client parses the answer
GetFileDependencyGraph ==
  /\ phase = "analysing"
  /\ heap' = parseHeap(heap, toJsonObject(cg))
  /\ resp' = parseGraph(heap, toJsonObject(cg))
  /\ loads' = loads + 1
  /\ cg' = EmptyCodeGraph
  /\ cu' = NoUnit
  /\ phase' = "received"
  /\ UNCHANGED <<opsDone, data, dataVersion>>
  /\ UNCHANGED exceptMerge

\* JavaScriptAnalyzer.analyzeFile(filePath)
JsAnalyzeFile ==
  /\ phase = "idle"
  /\ loads < MaxLoads
  /\ \E f \in JsFiles :
       /\ heap' = parseHeap(heap, jsAnalyzeFile(f))
       /\ resp' = parseGraph(heap, jsAnalyzeFile(f))
  /\ loads' = loads + 1
  /\ phase' = "received"
  /\ UNCHANGED <<cu, cg, opsDone, data, dataVersion>>
  /\ UNCHANGED exceptMerge

\* GraphViewProvider.mergeGraphData(newData): mergeGraphData(this._data, newData),
\* _dataVersion++, and syncToWebview, which returns at once while no view is
\* resolved (_view is null)
MergeView ==
  /\ phase = "received"
  /\ heap' = mergeGraphData(heap, data, resp).heap
  /\ data' = mergeGraphData(heap, data, resp).graph
  /\ dataVersion' = dataVersion + 1
  /\ phase' = "idle"
  /\ UNCHANGED <<cu, cg, opsDone, resp, loads>>
  /\ UNCHANGED exceptMerge

Next ==
  \/ StartAnalysis
  \/ AddReferNode
  \/ SetNodeType
  \/ SetNodeLinesOfCode
  \/ SetNodeFilePath
  \/ GetFileDependencyGraph
  \/ JsAnalyzeFile
  \/ MergeView

Spec == Init /\ [][Next]_vars

(***************************************************************************)
(* The language server's request service.  The message thread runs the     *)
(* notification handlers one after another; the body of every              *)
(* getFileDependencyGraph request runs on a thread of the common pool      *)
(* (CompletableFuture.supplyAsync), beside the message thread.             *)
(***************************************************************************)
\* initialize calls setWorkspaceRoot: the engine is set unless its construction throws
SetWorkspaceRoot ==
  /\ threads[MessageThread].pc = "idle"
  /\ \E ok \in BOOLEAN : analysisEngine' = IF ok THEN TRUE ELSE analysisEngine
  /\ ev' = Event("setWorkspaceRoot", NoPath, "none", NoGraph)
  /\ UNCHANGED <<graphCache, runs, threads>>
  /\ UNCHANGED staleTasks
  /\ UNCHANGED exceptCache

\* analyzeFile(filePath) on thread t up to the write of graphCache.put: the engine
\* is null, or analysisEngine.analyzeFile throws, and the handler goes on at pc
\* next; or it returns a new CodeGraph and put has read the map
analyzeFile(t, kind, filePath, next) ==
  \/ /\ ~analysisEngine
     /\ threads' = [threads EXCEPT ![t] =
                      IF next = "idle" THEN Idle
                      ELSE [@ EXCEPT !.pc = next, !.analysis = "noengine"]]
     /\ ev' = Event(kind, filePath, "noengine", NoGraph)
     /\ UNCHANGED runs
  \/ /\ analysisEngine
     /\ threads' = [threads EXCEPT ![t] =
                      IF next = "idle" THEN Idle
                      ELSE [@ EXCEPT !.pc = next, !.analysis = "failed"]]
     /\ ev' = Event(kind, filePath, "failed", NoGraph)
     /\ UNCHANGED runs
  \/ /\ analysisEngine
     /\ runs < MaxRuns
     /\ runs' = runs + 1
     /\ threads' = [threads EXCEPT ![t] =
                      [pc |-> "put", kind |-> kind, path |-> filePath,
                       graph |-> newCodeGraph(filePath, runs + 1),
                       mode |-> putRead(graphCache, filePath).mode,
                       node |-> putRead(graphCache, filePath).node,
                       analysis |-> "ok",
                       result |-> newCodeGraph(filePath, runs + 1)]]
     /\ ev' = Event("begin", filePath, "ok", NoGraph)

\* didOpen(params): nothing for a uri that does not end with .java, analyzeFile
\* of its path otherwise
DidOpen ==
  /\ threads[MessageThread].pc = "idle"
  /\ \E uri \in Uris :
       IF ~endsWith(uri, ".java")
       THEN /\ ev' = Event("didOpen", getPath(uri), "skipped", NoGraph)
            /\ UNCHANGED <<runs, threads>>
       ELSE analyzeFile(MessageThread, "didOpen", getPath(uri), "idle")
  /\ UNCHANGED <<analysisEngine, graphCache>>
  /\ UNCHANGED staleTasks
  /\ UNCHANGED exceptCache

\* didChange(params): as didOpen
DidChange ==
  /\ threads[MessageThread].pc = "idle"
  /\ \E uri \in Uris :
       IF ~endsWith(uri, ".java")
       THEN /\ ev' = Event("didChange", getPath(uri), "skipped", NoGraph)
            /\ UNCHANGED <<runs, threads>>
       ELSE analyzeFile(MessageThread, "didChange", getPath(uri), "idle")
  /\ UNCHANGED <<analysisEngine, graphCache>>
  /\ UNCHANGED staleTasks
  /\ UNCHANGED exceptCache

\* didClose(params) up to the write of graphCache.remove(filePath)
DidClose ==
  /\ threads[MessageThread].pc = "idle"
  /\ \E uri \in Uris :
       threads' = [threads EXCEPT ![MessageThread] =
                    [pc |-> "remove", kind |-> "didClose", path |-> getPath(uri),
                     graph |-> NoGraph,
                     mode |-> removeRead(graphCache, getPath(uri)).mode,
                     node |-> removeRead(graphCache, getPath(uri)).node,
                     analysis |-> "none", result |-> NoGraph]]
  /\ ev' = Event("begin", threads'[MessageThread].path, "none", NoGraph)
  /\ UNCHANGED <<analysisEngine, graphCache, runs>>
  /\ UNCHANGED staleTasks
  /\ UNCHANGED exceptCache

\* didSave(params): an empty handler
DidSave ==
  /\ threads[MessageThread].pc = "idle"
  /\ \E uri \in Uris : ev' = Event("didSave", getPath(uri), "none", NoGraph)
  /\ UNCHANGED <<analysisEngine, graphCache, runs, threads>>
  /\ UNCHANGED staleTasks
  /\ UNCHANGED exceptCache

\* graphCache.put of analyzeFile writes and returns on thread t; analyzeFile
\* returns to didOpen or didChange, which return, or to the body of
\* getFileDependencyGraph
PutReturns ==
  /\ \E t \in Threads :
       /\ threads[t].pc = "put"
       /\ graphCache' = putWrite(graphCache, threads[t])
       /\ ev' = Event(threads[t].kind, threads[t].path, "ok", threads[t].graph)
       /\ threads' = [threads EXCEPT ![t] =
                        IF t = MessageThread THEN Idle
                        ELSE [@ EXCEPT !.pc = "reget"]]
  /\ UNCHANGED <<analysisEngine, runs>>
  /\ UNCHANGED staleTasks
  /\ UNCHANGED exceptCache

\* the pool threads that are running the body of a request for a path
inProgressFor(path) ==
  {t \in Threads \ {MessageThread} : threads[t].pc # "idle" /\ threads[t].path = path}
\* graphCache.remove of didClose writes and returns, and didClose returns
RemoveReturns ==
  /\ threads[MessageThread].pc = "remove"
  /\ graphCache' = removeWrite(graphCache, threads[MessageThread])
  /\ ev' = Event("didClose", threads[MessageThread].path, "none", NoGraph)
  /\ threads' = [threads EXCEPT ![MessageThread] = Idle]
  /\ UNCHANGED <<analysisEngine, runs>>
  /\ staleTasks' = staleTasks \cup inProgressFor(threads[MessageThread].path)
  /\ UNCHANGED exceptCache

\* getFileDependencyGraph(uri) on the message thread: supplyAsync hands the body to
\* the pool and returns the future
getFileDependencyGraph(uri) ==
  /\ threads[MessageThread].pc = "idle"
  /\ \E t \in Threads \ {MessageThread} :
       /\ threads[t].pc = "idle"
       /\ threads' = [threads EXCEPT ![t] =
                        [pc |-> "get", kind |-> "getGraph", path |-> getPath(uri),
                         graph |-> NoGraph, mode |-> "", node |-> 0,
                         analysis |-> "none", result |-> NoGraph]]
       /\ ev' = Event("begin", getPath(uri), "none", NoGraph)
  /\ UNCHANGED <<analysisEngine, graphCache, runs, staleTasks>>

\* a dependviz/getFileDependencyGraph request for any uri
GetFileDependencyGraphRequest ==
  /\ \E uri \in Uris : getFileDependencyGraph(uri)
  /\ UNCHANGED exceptCache

\* the body on its pool thread: graph = graphCache.get(filePath), and the test of
\* graph == null
TaskGet ==
  /\ \E t \in Threads \ {MessageThread} :
       /\ threads[t].pc = "get"
       /\ threads' = [threads EXCEPT ![t] =
                        IF cacheGet(graphCache, threads[t].path) = NoGraph
                        THEN [@ EXCEPT !.pc = "analyze", !.analysis = "miss"]
                        ELSE [@ EXCEPT !.pc = "respond", !.analysis = "hit",
                                       !.graph = cacheGet(graphCache, threads[t].path),
                                       !.result = cacheGet(graphCache, threads[t].path)]]
       /\ ev' = Event("getGraph", threads[t].path,
                      IF cacheGet(graphCache, threads[t].path) = NoGraph
                      THEN "miss" ELSE "hit", NoGraph)
  /\ UNCHANGED <<analysisEngine, graphCache, runs>>
  /\ UNCHANGED staleTasks
  /\ UNCHANGED exceptCache

\* the body, graph == null: analyzeFile(filePath)
TaskAnalyze ==
  /\ \E t \in Threads \ {MessageThread} :
       /\ threads[t].pc = "analyze"
       /\ analyzeFile(t, "getGraph", threads[t].path, "reget")
  /\ UNCHANGED <<analysisEngine, graphCache>>
  /\ UNCHANGED staleTasks
  /\ UNCHANGED exceptCache

\* the body, after analyzeFile: graph = graphCache.get(filePath)
TaskReget ==
  /\ \E t \in Threads \ {MessageThread} :
       /\ threads[t].pc = "reget"
       /\ threads' = [threads EXCEPT ![t] =
                        [@ EXCEPT !.pc = "respond",
                                  !.graph = cacheGet(graphCache, threads[t].path)]]
       /\ ev' = Event("getGraph", threads[t].path, "reget", NoGraph)
  /\ UNCHANGED <<analysisEngine, graphCache, runs>>
  /\ UNCHANGED staleTasks
  /\ UNCHANGED exceptCache

\* the body returns the empty graph for null and the serialization of graph
\* otherwise, and the future completes; the step records what the request did
\* (it found the graph cached, or how its analysis ended, and the graph it found
\* or its analysis returned) beside the response
taskRespond ==
  /\ \E t \in Threads \ {MessageThread} :
       /\ threads[t].pc = "respond"
       /\ ev' = [kind |-> "response", path |-> threads[t].path,
                 analysis |-> threads[t].analysis, graph |-> threads[t].result,
                 response |-> writeValueAsString(threads[t].graph)]
       /\ threads' = [threads EXCEPT ![t] = Idle]
       /\ staleTasks' = staleTasks \ {t}
  /\ UNCHANGED <<analysisEngine, graphCache, runs>>

\* the response of a request
TaskRespond ==
  /\ taskRespond
  /\ UNCHANGED exceptCache

NextCache ==
  \/ SetWorkspaceRoot
  \/ DidOpen
  \/ DidChange
  \/ DidClose
  \/ DidSave
  \/ PutReturns
  \/ RemoveReturns
  \/ GetFileDependencyGraphRequest
  \/ TaskGet
  \/ TaskAnalyze
  \/ TaskReget
  \/ TaskRespond

SpecCache == Init /\ [][NextCache]_vars

(***************************************************************************)
(* AnalysisEngine.analyzeFile: the file is parsed, the stages run in       *)
(* order, and the graph is returned; an exception out of the parser or out *)
(* of a stage is logged and thrown on.  The call is the one of a           *)
(* getFileDependencyGraph request that found the file uncached: the        *)
(* service stores the graph returned, answers, and the extension merges    *)
(* the answer into its graph.                                              *)
(***************************************************************************)
\* the catch block of analyzeFile that swallows the exception of a stage
afterStage_Swallow(thrown) == "running"
\* the loop over the stages after stage.process: the catch block logs and
\* rethrows
afterStage(thrown) == IF thrown THEN "thrown" ELSE "running"
\* a service that stores the graph of the engine however the call ended
servicePuts_Always(out) == TRUE
\* DependVizTextDocumentService.analyzeFile: graphCache.put is reached when
\* analysisEngine.analyzeFile returned
servicePuts(out) == out = "returned"

\* analyzeFile(filePath) up to the loop, for a file among units: new CodeGraph()
\* and createCompilationUnit
engineAnalyzeFile(units) ==
  /\ outcome = "idle"
  /\ \E u \in units :
       /\ unit' = u
       /\ outcome' = IF parseThrows(u) THEN "thrown" ELSE "running"
       /\ thrownBy' = IF parseThrows(u) THEN "parse" ELSE ""
  /\ codeGraph' = EmptyCodeGraph
  /\ UNCHANGED <<stages, ran, invoked, servicePc, stored, response, received>>
  /\ UNCHANGED exceptPipeline

\* analyzeFile(filePath) of any file
AnalyzeFile == engineAnalyzeFile(Units)

\* one turn of the loop over the stages: stage.process(cu, codeGraph) of the
\* stage at this position
RunStage(k) ==
  /\ outcome = "running"
  /\ Len(ran) = k - 1
  /\ LET r == process(stages[k], unit, codeGraph)
     IN  /\ codeGraph' = r.graph
         /\ invoked' = invoked \o r.invoked
         /\ outcome' = afterStage(r.thrown)
         /\ thrownBy' = IF r.thrown THEN stages[k] ELSE ""
  /\ ran' = Append(ran, stages[k])
  /\ UNCHANGED <<unit, stages, servicePc, stored, response, received>>
  /\ UNCHANGED exceptPipeline

TypeUseStage == RunStage(1)
MethodCallStage == RunStage(2)
ObjectCreationStage == RunStage(3)
ExtendsStage == RunStage(4)
ImplementsStage == RunStage(5)
ClassTypeStage == RunStage(6)
LinesOfCodeStage == RunStage(7)
FilePathStage == RunStage(8)

\* the loop is over: return codeGraph
AnalyzeFileReturns ==
  /\ outcome = "running"
  /\ Len(ran) = Len(stages)
  /\ outcome' = "returned"
  /\ UNCHANGED <<unit, stages, codeGraph, ran, invoked, thrownBy, servicePc, stored,
                 response, received>>
  /\ UNCHANGED exceptPipeline

\* DependVizTextDocumentService.analyzeFile after the engine: graphCache.put of the
\* graph returned, or the catch block, which logs
ServiceAnalyzeFile ==
  /\ servicePc = "engine"
  /\ outcome \in {"returned", "thrown"}
  /\ stored' = IF servicePuts(outcome) THEN [has |-> TRUE, graph |-> codeGraph]
               ELSE stored
  /\ servicePc' = "reget"
  /\ UNCHANGED <<unit, stages, codeGraph, ran, invoked, outcome, thrownBy, response,
                 received>>
  /\ UNCHANGED exceptPipeline

\* the body of getFileDependencyGraph after analyzeFile: graphCache.get, and the
\* empty graph for null or the serialization of the graph found
ServiceResponds ==
  /\ servicePc = "reget"
  /\ response' = [sent |-> TRUE,
                  json |-> IF stored.has THEN toJsonObject(stored.graph)
                           ELSE EmptyResponse]
  /\ servicePc' = "answered"
  /\ UNCHANGED <<unit, stages, codeGraph, ran, invoked, outcome, thrownBy, stored,
                 received>>
  /\ UNCHANGED exceptPipeline

\* the extension receives the answer: JSON.parse and mergeGraphData into its graph
ResponseMerged ==
  /\ servicePc = "answered"
  /\ received' = mergeGraphData(parseHeap(received.heap, response.json),
                                received.graph,
                                parseGraph(received.heap, response.json))
  /\ servicePc' = "merged"
  /\ UNCHANGED <<unit, stages, codeGraph, ran, invoked, outcome, thrownBy, stored,
                 response>>
  /\ UNCHANGED exceptPipeline

NextPipeline ==
  \/ AnalyzeFile
  \/ TypeUseStage
  \/ MethodCallStage
  \/ ObjectCreationStage
  \/ ExtendsStage
  \/ ImplementsStage
  \/ ClassTypeStage
  \/ LinesOfCodeStage
  \/ FilePathStage
  \/ AnalyzeFileReturns
  \/ ServiceAnalyzeFile
  \/ ServiceResponds
  \/ ResponseMerged

SpecPipeline == Init /\ [][NextPipeline]_vars

(***************************************************************************)
(* The stages in any order: an engine whose list of stages is a            *)
(* permutation of the shipped one analyses a file whose references all     *)
(* resolve.                                                                *)
(***************************************************************************)
\* the file with every reference resolving
ResolvableUnits ==
  {[parses |-> TRUE, scenario |-> FALSE, abstract |-> FALSE, unresolved |-> {}]}
\* the orders the eight stages can be added in
StageOrders == Permutations(1..Len(Stages))
\* an engine constructed with its stages in some order
InitOrder == \E o \in StageOrders : InitWith([k \in 1..Len(Stages) |-> Stages[o[k]]])

\* analyzeFile(filePath) of a file whose references all resolve
AnalyzeResolvableFile == engineAnalyzeFile(ResolvableUnits)

\* stage.process of the stage at any position of the list
RunAnyStage == \E k \in 1..Len(Stages) : RunStage(k)

NextOrder ==
  \/ AnalyzeResolvableFile
  \/ RunAnyStage
  \/ AnalyzeFileReturns

SpecOrder == InitOrder /\ [][NextOrder]_vars

(***************************************************************************)
(* JavaAnalyzer.analyze: the sweep over the .java files of the workspace.  *)
(* The loop awaits one request per file; the server goes on handling the   *)
(* notifications of the editor meanwhile.                                  *)
(***************************************************************************)
\* the .java paths of the workspace
JavaFilePaths == {p \in Paths : p[Len(p)] = ".java"}
\* vscode.workspace.findFiles('**/*.java', ...): the .java paths, in any order
JavaFileLists ==
  {<<>>} \cup {<<f>> : f \in JavaFilePaths}
         \cup UNION {{<<f, g>> : g \in JavaFilePaths \ {f}} : f \in JavaFilePaths}
\* vscode.Uri.file(filePath).toString()
fileUri(filePath) == <<"file://">> \o filePath
\* a loop that a rejected request ends
sweepStep_AbortOnError(s, n, rejected, json) ==
  IF rejected
  THEN [s EXCEPT !.i = n + 1, !.errorCount = @ + 1]
  ELSE LET m == mergeGraphData(parseHeap(s.heap, json), s.graph,
                               parseGraph(s.heap, json))
       IN  [i |-> s.i + 1, heap |-> m.heap, graph |-> m.graph,
            successCount |-> s.successCount + 1, errorCount |-> s.errorCount]
\* the loop variables after one turn of the loop over n files: mergeGraphData
\* and successCount++ when the awaited request returned a graph, errorCount++ in
\* the catch block when it threw; i++ either way
sweepStep(s, n, rejected, json) ==
  IF rejected
  THEN [s EXCEPT !.i = @ + 1, !.errorCount = @ + 1]
  ELSE LET m == mergeGraphData(parseHeap(s.heap, json), s.graph,
                               parseGraph(s.heap, json))
       IN  [i |-> s.i + 1, heap |-> m.heap, graph |-> m.graph,
            successCount |-> s.successCount + 1, errorCount |-> s.errorCount]
\* the loop variables as one record
sweepState ==
  [i |-> sweepI, heap |-> sweepHeap, graph |-> mergedGraph,
   successCount |-> successCount, errorCount |-> errorCount]
\* the loop variables take the values of record s
sweepBecomes(s) ==
  /\ sweepI' = s.i
  /\ sweepHeap' = s.heap
  /\ mergedGraph' = s.graph
  /\ successCount' = s.successCount
  /\ errorCount' = s.errorCount

\* analyze() up to the loop: startLanguageClient, which may throw, and findFiles
Analyze ==
  /\ sweepPc = "idle"
  /\ \E started \in BOOLEAN, files \in JavaFileLists :
       /\ javaFiles' = IF started THEN files ELSE <<>>
       /\ sweepPc' = IF ~started THEN "failed"
                     ELSE IF files = <<>> THEN "done" ELSE "loop"
  /\ UNCHANGED <<sweepI, sweepHeap, mergedGraph, successCount, errorCount, attempts>>
  /\ UNCHANGED <<cacheVars, exceptSweep>>

\* the loop: _analyzeFileInternal(file.fsPath) sends the request for file i
SweepRequest ==
  /\ sweepPc = "loop"
  /\ sweepI <= Len(javaFiles)
  /\ getFileDependencyGraph(fileUri(javaFiles[sweepI]))
  /\ sweepPc' = "await"
  /\ UNCHANGED <<javaFiles, sweepI, sweepHeap, mergedGraph, successCount,
                 errorCount, attempts>>
  /\ UNCHANGED exceptSweep

\* the loop: client.sendRequest rejects (the connection to the server is gone),
\* getFileDependencyGraph logs and rethrows, and the catch block counts the file
SweepRejected ==
  /\ sweepPc = "loop"
  /\ sweepI <= Len(javaFiles)
  /\ sweepBecomes(sweepStep(sweepState, Len(javaFiles), TRUE, EmptyResponse))
  /\ attempts' = Append(attempts,
                   [file |-> javaFiles[sweepI], counted |-> "error",
                    analysis |-> "rejected", json |-> EmptyResponse])
  /\ UNCHANGED <<javaFiles, sweepPc>>
  /\ UNCHANGED <<cacheVars, exceptSweep>>

\* the server answers the request of file i and the loop resumes: JSON.parse,
\* validateGraphData, mergeGraphData(mergedGraph, graphData), successCount++
SweepResponse ==
  /\ sweepPc = "await"
  /\ taskRespond
  /\ sweepBecomes(sweepStep(sweepState, Len(javaFiles), FALSE, ev'.response))
  /\ attempts' = Append(attempts,
                   [file |-> javaFiles[sweepI], counted |-> "success",
                    analysis |-> ev'.analysis, json |-> ev'.response])
  /\ sweepPc' = "loop"
  /\ UNCHANGED javaFiles
  /\ UNCHANGED exceptSweep

\* the loop is over: showInformationMessage with the counts, return mergedGraph
SweepReturns ==
  /\ sweepPc = "loop"
  /\ sweepI > Len(javaFiles)
  /\ sweepPc' = "done"
  /\ UNCHANGED <<javaFiles, sweepI, sweepHeap, mergedGraph, successCount,
                 errorCount, attempts>>
  /\ UNCHANGED <<cacheVars, exceptSweep>>

NextSweep ==
  \/ Analyze
  \/ SweepRequest
  \/ SweepRejected
  \/ SweepResponse
  \/ SweepReturns
  \/ SetWorkspaceRoot
  \/ DidOpen
  \/ DidChange
  \/ DidClose
  \/ DidSave
  \/ PutReturns
  \/ RemoveReturns
  \/ TaskGet
  \/ TaskAnalyze
  \/ TaskReget

SpecSweep == Init /\ [][NextSweep]_vars

(***************************************************************************)
(* The extension host: one JavaScript thread runs the command handlers and *)
(* the event handlers.  A handler keeps the thread until it awaits or      *)
(* returns; mergeGraphData is followed step by step.                       *)
(***************************************************************************)
\* the asynchronous handlers that merge: the analyzeProject command (the sweep)
\* and two invocations of the analyzeCurrentFile command
MergeTasks == {"analyzeProject", "analyzeCurrentFile1", "analyzeCurrentFile2"}
\* no handler
NoTask == "none"
\* the graphs merged into: mergedGraph of JavaAnalyzer.analyze and
\* GraphViewProvider._data
mergeTarget(t) == IF t = "analyzeProject" THEN "mergedGraph" ELSE "_data"
\* the task is between the start and the end of a mergeGraphData call
inMerge(t) == taskPc[t] \in {"mergeNodes", "mergeLinks"}
\* a handler that touches the nodes or links of a target, and the merge that was
\* under way on that target
Touch(by, target) == [by |-> by, target |-> target, during |-> merging[target]]
\* a handler that touches no graph
TouchNothing(by) == [by |-> by, target |-> "none", during |-> NoTask]
\* the thread after a step inside mergeGraphData with an await in it
afterMergeStep_Await(t) == NoTask
\* the thread after a step inside mergeGraphData: the function is synchronous,
\* the handler keeps the thread
afterMergeStep(t) == t

\* the analyzeProject command: analyze() starts the client, finds the files and
\* awaits the analysis of the first one; with no file it returns an empty graph
AnalyzeProjectCommand ==
  /\ jsThread = NoTask
  /\ taskPc["analyzeProject"] = "idle"
  /\ \E n \in 0..MaxSweepFiles :
       /\ sweepLeft' = n
       /\ taskPc' = [taskPc EXCEPT !["analyzeProject"] =
                       IF n = 0 THEN "returning" ELSE "awaiting"]
  /\ UNCHANGED <<jsThread, merging, touched>>
  /\ UNCHANGED exceptLoop

\* the analyzeCurrentFile command: up to await analyzerManager.analyzeFile
AnalyzeCurrentFileCommand(t) ==
  /\ jsThread = NoTask
  /\ t # "analyzeProject"
  /\ taskPc[t] = "idle"
  /\ taskPc' = [taskPc EXCEPT ![t] = "awaiting"]
  /\ UNCHANGED <<jsThread, merging, touched, sweepLeft>>
  /\ UNCHANGED exceptLoop

\* the awaited analysis resolves: the handler resumes and calls mergeGraphData,
\* which builds nodeMap from target.nodes
MergeStart(t) ==
  /\ jsThread = NoTask
  /\ taskPc[t] = "awaiting"
  /\ taskPc' = [taskPc EXCEPT ![t] = "mergeNodes"]
  /\ merging' = [merging EXCEPT ![mergeTarget(t)] = t]
  /\ touched' = Touch(t, mergeTarget(t))
  /\ jsThread' = afterMergeStep(t)
  /\ UNCHANGED sweepLeft
  /\ UNCHANGED exceptLoop

\* the awaited analysis rejects: the sweep counts the error and goes on with the
\* next file, the command shows the error
AnalysisRejected(t) ==
  /\ jsThread = NoTask
  /\ taskPc[t] = "awaiting"
  /\ IF t = "analyzeProject"
     THEN /\ sweepLeft' = sweepLeft - 1
          /\ taskPc' = [taskPc EXCEPT ![t] =
                          IF sweepLeft = 1 THEN "returning" ELSE "awaiting"]
     ELSE /\ taskPc' = [taskPc EXCEPT ![t] = "idle"]
          /\ UNCHANGED sweepLeft
  /\ touched' = TouchNothing(t)
  /\ UNCHANGED <<jsThread, merging>>
  /\ UNCHANGED exceptLoop

\* mergeGraphData: source.nodes.forEach, which reads and writes target.nodes
MergeNodes(t) ==
  /\ jsThread \in {NoTask, t}
  /\ taskPc[t] = "mergeNodes"
  /\ taskPc' = [taskPc EXCEPT ![t] = "mergeLinks"]
  /\ touched' = Touch(t, mergeTarget(t))
  /\ jsThread' = afterMergeStep(t)
  /\ UNCHANGED <<merging, sweepLeft>>
  /\ UNCHANGED exceptLoop

\* mergeGraphData: source.links.forEach, which reads and writes target.links, and
\* the return of the call
MergeLinks(t) ==
  /\ jsThread \in {NoTask, t}
  /\ taskPc[t] = "mergeLinks"
  /\ taskPc' = [taskPc EXCEPT ![t] = "merged"]
  /\ touched' = Touch(t, mergeTarget(t))
  /\ merging' = [merging EXCEPT ![mergeTarget(t)] = NoTask]
  /\ jsThread' = t
  /\ UNCHANGED sweepLeft
  /\ UNCHANGED exceptLoop

\* after the merge: the sweep counts the file and awaits the next one, or leaves
\* the loop; the command increments _dataVersion, calls syncToWebview, which
\* reads _data, and returns
AfterMerge(t) ==
  /\ jsThread = t
  /\ taskPc[t] = "merged"
  /\ IF t = "analyzeProject"
     THEN /\ sweepLeft' = sweepLeft - 1
          /\ taskPc' = [taskPc EXCEPT ![t] =
                          IF sweepLeft = 1 THEN "returning" ELSE "awaiting"]
          /\ touched' = TouchNothing(t)
     ELSE /\ taskPc' = [taskPc EXCEPT ![t] = "idle"]
          /\ touched' = Touch(t, "_data")
          /\ UNCHANGED sweepLeft
  /\ jsThread' = NoTask
  /\ UNCHANGED merging
  /\ UNCHANGED exceptLoop

\* analyze() returned mergedGraph to the analyzeProject command, which calls
\* setGraphData: _data is replaced and syncToWebview reads it
SetGraphData ==
  /\ jsThread = NoTask
  /\ taskPc["analyzeProject"] = "returning"
  /\ taskPc' = [taskPc EXCEPT !["analyzeProject"] = "idle"]
  /\ touched' = Touch("analyzeProject", "_data")
  /\ UNCHANGED <<jsThread, merging, sweepLeft>>
  /\ UNCHANGED exceptLoop

\* the handlers that read _data and return: the refresh command and the ready
\* message of the webview (syncToWebview), the change of the active editor
\* (focusNode, _findNodeByFilePath)
ReadingHandlers == {"refresh", "ready", "activeEditor"}
DataRead(h) ==
  /\ jsThread = NoTask
  /\ touched' = Touch(h, "_data")
  /\ UNCHANGED <<jsThread, taskPc, merging, sweepLeft>>
  /\ UNCHANGED exceptLoop

\* a change of the settings: notifyAll, handleSettingsChanged, syncToWebview with
\* viewOnly, which sends the controls and not _data
SettingsChanged ==
  /\ jsThread = NoTask
  /\ touched' = TouchNothing("settings")
  /\ UNCHANGED <<jsThread, taskPc, merging, sweepLeft>>
  /\ UNCHANGED exceptLoop

NextLoop ==
  \/ AnalyzeProjectCommand
  \/ \E t \in MergeTasks : AnalyzeCurrentFileCommand(t)
  \/ \E t \in MergeTasks : MergeStart(t)
  \/ \E t \in MergeTasks : AnalysisRejected(t)
  \/ \E t \in MergeTasks : MergeNodes(t)
  \/ \E t \in MergeTasks : MergeLinks(t)
  \/ \E t \in MergeTasks : AfterMerge(t)
  \/ SetGraphData
  \/ \E h \in ReadingHandlers : DataRead(h)
  \/ SettingsChanged

SpecLoop == Init /\ [][NextLoop]_vars

(***************************************************************************)
(* WebviewBridge: messages to the webview wait in a queue until the        *)
(* webview has reported ready.                                             *)
(***************************************************************************)
\* the webviews resolveWebviewView is called with, in order
Webviews == 1..MaxWebviews
\* WebviewBridge._webview before the first attach
NoWebview == 0
\* webview.postMessage(message): the message, the webview it is posted to, and
\* whether that webview has reported ready
Posted(w, n, known) == [to |-> w, msg |-> n, toReported |-> w \in known]
\* markReady: while (queue.length) webview.postMessage(queue.shift())
RECURSIVE flush(_, _, _, _)
flush(w, q, out, known) ==
  IF q = <<>> THEN out
  ELSE flush(w, Tail(q), Append(out, Posted(w, Head(q), known)), known)
\* WebviewBridge.send(method, params), the webview being attached: the message is
\* posted if the bridge is ready and queued if it is not
bridgeSend(w, isReady, q, out, n, known) ==
  IF isReady THEN [queue |-> q, posted |-> Append(out, Posted(w, n, known))]
  ELSE [queue |-> Append(q, n), posted |-> out]

\* GraphViewProvider.resolveWebviewView: attach(webviewView.webview), which
\* registers a listener on the webview, then syncToWebview
ResolveWebviewView ==
  /\ Cardinality(listening) < MaxWebviews
  /\ Len(sendLog) < MaxSends
  /\ LET w == Cardinality(listening) + 1
         r == bridgeSend(w, FALSE, <<>>, posted, Len(sendLog) + 1, reported)
     IN  /\ webview' = w
         /\ bridgeReady' = FALSE
         /\ listening' = listening \cup {w}
         /\ queue' = r.queue
         /\ posted' = r.posted
         /\ sendLog' = Append(sendLog, w)
  /\ UNCHANGED reported
  /\ UNCHANGED exceptBridge

\* a handler of the provider sends a message (syncToWebview, focusNode,
\* clearFocus): nothing without a view, else WebviewBridge.send
ProviderSends ==
  /\ webview # NoWebview
  /\ Len(sendLog) < MaxSends
  /\ LET r == bridgeSend(webview, bridgeReady, queue, posted, Len(sendLog) + 1, reported)
     IN  /\ queue' = r.queue
         /\ posted' = r.posted
  /\ sendLog' = Append(sendLog, webview)
  /\ UNCHANGED <<webview, bridgeReady, listening, reported>>
  /\ UNCHANGED exceptBridge

\* a webview the bridge listens to posts its ready message: _handleMessage calls
\* markReady, which posts the queue to _webview, and then syncToWebview
WebviewReady(w) ==
  /\ w \in listening
  /\ Len(sendLog) < MaxSends
  /\ reported' = reported \cup {w}
  /\ bridgeReady' = TRUE
  /\ LET r == bridgeSend(webview, TRUE, <<>>, flush(webview, queue, posted, reported'),
                         Len(sendLog) + 1, reported')
     IN  /\ queue' = r.queue
         /\ posted' = r.posted
  /\ sendLog' = Append(sendLog, webview)
  /\ UNCHANGED <<webview, listening>>
  /\ UNCHANGED exceptBridge

NextBridge ==
  \/ ResolveWebviewView
  \/ ProviderSends
  \/ \E w \in Webviews : WebviewReady(w)

SpecBridge == Init /\ [][NextBridge]_vars

(***************************************************************************)
(* ConfigurationSubject: the observers of the configuration and their      *)
(* notification.                                                           *)
(***************************************************************************)
\* the observers activate attaches
Observers == {"settingsProvider", "filterProvider", "graphViewProvider"}
\* an object without an update function
InvalidObserver == "invalid"
\* the observers for which attach was called after the last detach
attachedNow == {o \in Observers : attachCalls[o] > 0}
\* Set.add(observer): a Set keeps its members once, in the order of insertion
setAdd(set, o) == IF \E i \in 1..Len(set) : set[i] = o THEN set ELSE Append(set, o)
\* Set.delete(observer)
setDelete(set, o) == SelectSeq(set, LAMBDA x : x # o)
\* notifyAll without the try block around observer.update
notifyGoesOn_NoCatch(threw) == ~threw
\* notifyAll: whether forEach goes on to the next observer after an update; an
\* error of update is caught and logged
notifyGoesOn(threw) == TRUE
\* this._observers.forEach(observer => observer.update(controls)): the update
\* calls made, from observer i on
RECURSIVE forEachUpdate(_, _, _, _, _)
forEachUpdate(set, i, controls, throwers, calls) ==
  IF i > Len(set) THEN calls
  ELSE LET call == [observer |-> set[i], controls |-> controls,
                    threw |-> set[i] \in throwers]
       IN  IF notifyGoesOn(call.threw)
           THEN forEachUpdate(set, i + 1, controls, throwers, Append(calls, call))
           ELSE Append(calls, call)
\* notifyAll(): loadControls(), then update on each observer; any of the updates
\* may throw
notifyAll ==
  \E throwers \in SUBSET Observers :
    updates' = [calls |-> forEachUpdate(observers, 1, configuration, throwers, <<>>),
                expected |-> attachedNow,
                loaded |-> configuration]

\* attach(observer): an object without update is refused, any other is added
Attach(o) ==
  /\ IF o = InvalidObserver
     THEN UNCHANGED <<observers, attachCalls>>
     ELSE /\ observers' = setAdd(observers, o)
          /\ attachCalls' = [attachCalls EXCEPT ![o] = IF @ < 2 THEN @ + 1 ELSE @]
  /\ UNCHANGED <<configuration, updates, saved>>
  /\ UNCHANGED exceptSubject

\* detach(observer), also through the disposable attach returned
Detach(o) ==
  /\ observers' = setDelete(observers, o)
  /\ attachCalls' = [attachCalls EXCEPT ![o] = 0]
  /\ UNCHANGED <<configuration, updates, saved>>
  /\ UNCHANGED exceptSubject

\* notifyAll() called by activate, by the change of the colour theme or by
\* handleAnalyzerConfigExternalChange
NotifyAll ==
  /\ notifyAll
  /\ UNCHANGED <<observers, attachCalls, configuration, saved>>
  /\ UNCHANGED exceptSubject

\* updateControls: await this._repository.saveConfiguration(updates, target)
SaveConfiguration ==
  /\ ~saved
  /\ configuration < MaxSaves
  /\ configuration' = configuration + 1
  /\ saved' = TRUE
  /\ UNCHANGED <<observers, attachCalls, updates>>
  /\ UNCHANGED exceptSubject

\* updateControls: this.notifyAll() once the configuration is saved
UpdateControlsNotifies ==
  /\ saved
  /\ saved' = FALSE
  /\ notifyAll
  /\ UNCHANGED <<observers, attachCalls, configuration>>
  /\ UNCHANGED exceptSubject

NextSubject ==
  \/ \E o \in Observers \cup {InvalidObserver} : Attach(o)
  \/ \E o \in Observers : Detach(o)
  \/ NotifyAll
  \/ SaveConfiguration
  \/ UpdateControlsNotifies

SpecSubject == Init /\ [][NextSubject]_vars

(***************************************************************************)
(* What a graph says: ids, field values and identity triples.              *)
(***************************************************************************)
\* the ids of a sequence of node objects, in order
IdsOf(h, nodes) == [i \in 1..Len(nodes) |-> h[nodes[i]].id]
\* the node objects themselves, in order
ValuesOf(h, nodes) == [i \in 1..Len(nodes) |-> h[nodes[i]]]
\* no value occurs twice in the sequence
NoRepeat(seq) == \A i, j \in 1..Len(seq) : seq[i] = seq[j] => i = j
\* the identity triple of a link
TripleOf(h, link) == <<endId(h, link.source), endId(h, link.target), link.type>>
\* the identity triples of a sequence of links, in order
TriplesOf(h, links) == [i \in 1..Len(links) |-> TripleOf(h, links[i])]
\* the set of values of a sequence
Range(seq) == {seq[i] : i \in 1..Len(seq)}
\* the identity triples of the edges of a CodeGraph, in order
CgTriples(g) ==
  [i \in 1..Len(g.graphEdges) |->
     <<g.graphNodes[g.graphEdges[i].sourceNode].id,
       g.graphNodes[g.graphEdges[i].targetNode].id,
       g.graphEdges[i].type>>]
\* the addresses in graph g of the nodes with this id
WithId(h, g, id) == {i \in 1..Len(g.nodes) : h[g.nodes[i]].id = id}
\* a stub: nothing but the id is known
IsStub(node) == node.type = "Unknown" /\ node.linesOfCode = -1 /\ node.filePath = Null
\* every field is known
IsDeclared(node) == node.type # "Unknown" /\ node.linesOfCode # -1 /\ node.filePath # Null
\* the result of merging graphData into the view's graph in this state
Merged == mergeGraphData(heap, data, resp)

\* C1: no graph (the CodeGraph of a run, a received analysis result, the merged
\* graph) ever holds two nodes with the same id.
C1_NodeIdsUnique ==
  /\ NoRepeat([i \in 1..Len(cg.graphNodes) |-> cg.graphNodes[i].id])
  /\ NoRepeat(IdsOf(heap, resp.nodes))
  /\ NoRepeat(IdsOf(heap, data.nodes))
  /\ NoRepeat(IdsOf(Merged.heap, Merged.graph.nodes))

\* C1 witness: a second result was merged into a graph that already held two of
\* its ids, as other objects, and the graph holds two nodes
C1_Witness ==
  /\ phase = "idle" /\ loads = 2
  /\ Len(data.nodes) = 2
  /\ Len(resp.nodes) = 2
  /\ Range(resp.nodes) \cap Range(data.nodes) = {}
  /\ Range(IdsOf(heap, resp.nodes)) = Range(IdsOf(heap, data.nodes))

\* C2: no CodeGraph and no merged graph holds two edges with the same
\* (source id, target id, type); adding an edge of the CodeGraph again, or merging
\* the received links again, changes nothing.
C2_EdgeDedup ==
  /\ NoRepeat(CgTriples(cg))
  /\ NoRepeat(TriplesOf(heap, data.links))
  /\ NoRepeat(TriplesOf(Merged.heap, Merged.graph.links))
  /\ \A i \in 1..Len(cg.graphEdges) :
       addReferNode(cg, CgTriples(cg)[i][1], CgTriples(cg)[i][2], CgTriples(cg)[i][3]) = cg
  /\ mergeLinks(Merged.heap, Merged.graph.links, resp.links, 1) = Merged.graph.links
  /\ mergeLinks(heap, data.links, data.links, 1) = data.links

\* C2 witness: two addReferNode calls of one run left one edge
C2_Witness ==
  /\ phase = "analysing" /\ loads = 1 /\ opsDone = 3
  /\ Len(data.links) = 1
  /\ Len(cg.graphEdges) = 1
  /\ Len(cg.graphNodes) = 2
  /\ \A i \in 1..Len(cg.graphNodes) : IsStub(cg.graphNodes[i])
  /\ CgTriples(cg)[1] = TriplesOf(heap, data.links)[1]

\* C3: merging the same source a second time changes neither the nodes (ids and
\* field values) nor the edges of the target; and merging a second, equal analysis
\* result into the merge of the first with an empty target changes no count.
C3_MergeIdempotent ==
  /\ mergeGraphData(Merged.heap, Merged.graph, resp) = Merged
  /\ LET one == mergeGraphData(heap, EmptyGraph, resp)
         json == [nodes |-> ValuesOf(heap, resp.nodes), links |-> <<>>]
         again == [nodes |-> parseGraph(one.heap, json).nodes, links |-> resp.links]
         two == mergeGraphData(parseHeap(one.heap, json), one.graph, again)
     IN  /\ Len(two.graph.nodes) = Len(one.graph.nodes)
         /\ Len(two.graph.links) = Len(one.graph.links)

\* C3 witness: the same analysis result was received and merged twice
C3_Witness ==
  /\ phase = "idle" /\ loads = 2
  /\ Len(resp.nodes) = 2 /\ Len(resp.links) = 1
  /\ Range(resp.nodes) \cap Range(data.nodes) = {}
  /\ ValuesOf(heap, resp.nodes) = ValuesOf(heap, data.nodes)
  /\ resp.links = data.links

\* C4: for a node id in both graphs, after the merge the type is Unknown only if
\* it was Unknown in both, linesOfCode is -1 only if it was -1 in both, filePath
\* is null only if it was null in both.
C4_MergeMonotone ==
  \A a \in Range(data.nodes), b \in Range(resp.nodes) :
    heap[a].id = heap[b].id =>
      /\ Merged.heap[a].type = "Unknown" =>
           heap[a].type = "Unknown" /\ heap[b].type = "Unknown"
      /\ Merged.heap[a].linesOfCode = -1 =>
           heap[a].linesOfCode = -1 /\ heap[b].linesOfCode = -1
      /\ Merged.heap[a].filePath = Null =>
           heap[a].filePath = Null /\ heap[b].filePath = Null

\* C4 witness: a merge is due where the target knows what the source does not and
\* the source knows what the target does not
C4_Witness ==
  /\ phase = "received"
  /\ \E a \in Range(data.nodes), b \in Range(resp.nodes) :
       /\ heap[a].id = heap[b].id
       /\ heap[a].type # "Unknown" /\ heap[b].type = "Unknown"
       /\ heap[a].linesOfCode = -1 /\ heap[b].linesOfCode # -1
       /\ heap[a].filePath = Null /\ heap[b].filePath # Null

\* C5: a field of a node of the merged graph that is known (type not Unknown,
\* linesOfCode not -1, filePath not null) has the same value after every step,
\* whatever is merged.
C5_KnownNeverChanges ==
  [][\A a \in Range(data.nodes) :
       /\ heap[a].type # "Unknown" => heap'[a].type = heap[a].type
       /\ heap[a].linesOfCode # -1 => heap'[a].linesOfCode = heap[a].linesOfCode
       /\ heap[a].filePath # Null => heap'[a].filePath = heap[a].filePath]_vars

\* C5 witness: a merge is due whose source holds other known values than the target
C5_Witness ==
  /\ phase = "received"
  /\ \E a \in Range(data.nodes), b \in Range(resp.nodes) :
       /\ heap[a].id = heap[b].id
       /\ IsDeclared(heap[a]) /\ heap[b].type # "Unknown"
       /\ heap[a].type # heap[b].type

\* target.links after the first n links of graphData were processed
LinksAfter(n) == mergeLinks(Merged.heap, data.links, SubSeq(resp.links, 1, n), 1)

\* C6: a source edge is added to the target exactly when the target holds no edge
\* with the same ordered triple (source id, target id, type), and the target is
\* left alone otherwise.
C6_EdgeMergeRule ==
  \A i \in 1..Len(resp.links) :
    IF TripleOf(heap, resp.links[i]) \in Range(TriplesOf(heap, LinksAfter(i - 1)))
    THEN LinksAfter(i) = LinksAfter(i - 1)
    ELSE LinksAfter(i) = Append(LinksAfter(i - 1), resp.links[i])

\* the link end as a reference to the node of graph g with that id
EmbedEnd(h, g, end) ==
  IF ~end.obj /\ WithId(h, g, end.id) # {}
  THEN ObjEnd(g.nodes[CHOOSE i \in WithId(h, g, end.id) : TRUE])
  ELSE end
\* graph g with every link end given as the node object
EmbedGraph(h, g) ==
  [nodes |-> g.nodes,
   links |-> [i \in 1..Len(g.links) |->
                [source |-> EmbedEnd(h, g, g.links[i].source),
                 target |-> EmbedEnd(h, g, g.links[i].target),
                 type |-> g.links[i].type]]]

\* C7: a link whose ends are node objects and the link whose ends are the ids of
\* those nodes have the same identity, on either side of the merge: the merge adds
\* and keeps the same edges whichever form either graph uses, and merging a graph
\* into its own other form adds no edge.
C7_EndNormalized ==
  LET dataObj == EmbedGraph(heap, data)
      respObj == EmbedGraph(heap, resp)
  IN  /\ TriplesOf(Merged.heap, mergeGraphData(heap, data, respObj).graph.links)
           = TriplesOf(Merged.heap, Merged.graph.links)
      /\ TriplesOf(Merged.heap, mergeGraphData(heap, dataObj, resp).graph.links)
           = TriplesOf(Merged.heap, Merged.graph.links)
      /\ mergeGraphData(heap, data, dataObj).graph.links = data.links
      /\ mergeGraphData(heap, dataObj, data).graph.links = dataObj.links

\* C7 witness: a merge is due where both graphs hold the same link, so that one
\* form of it meets the other
C7_Witness ==
  /\ phase = "received"
  /\ Len(data.links) >= 1 /\ Len(resp.links) >= 1
  /\ Range(TriplesOf(heap, data.links)) \cap Range(TriplesOf(heap, resp.links)) # {}
  /\ EmbedGraph(heap, resp) # resp
  /\ EmbedGraph(heap, data) # data

\* C8: merging G into H and H into G give the same set of node ids and the same
\* set of edge triples, the unions of the two graphs'.
C8_MergeCommutes ==
  LET gh == mergeGraphData(heap, data, resp)
      hg == mergeGraphData(heap, resp, data)
  IN  /\ Range(IdsOf(gh.heap, gh.graph.nodes)) = Range(IdsOf(hg.heap, hg.graph.nodes))
      /\ Range(IdsOf(gh.heap, gh.graph.nodes))
           = Range(IdsOf(heap, data.nodes)) \cup Range(IdsOf(heap, resp.nodes))
      /\ Range(TriplesOf(gh.heap, gh.graph.links))
           = Range(TriplesOf(hg.heap, hg.graph.links))
      /\ Range(TriplesOf(gh.heap, gh.graph.links))
           = Range(TriplesOf(heap, data.links)) \cup Range(TriplesOf(heap, resp.links))

\* C9: a node the target holds only as a stub takes, in the merge, the type,
\* linesOfCode and filePath of the source's node with that id, and the target
\* then holds exactly one node with that id.
C9_StubRefined ==
  \A a \in Range(data.nodes), b \in Range(resp.nodes) :
    heap[a].id = heap[b].id /\ IsStub(heap[a]) =>
      /\ Merged.heap[a].type = heap[b].type
      /\ Merged.heap[a].linesOfCode = heap[b].linesOfCode
      /\ Merged.heap[a].filePath = heap[b].filePath
      /\ Cardinality(WithId(Merged.heap, Merged.graph, heap[a].id)) = 1

\* C9 witness: the analysis of A, which refers to B, was merged first and left B a
\* stub; the analysis of the file declaring B was merged next, and B, still the
\* second node, now holds the declared values
C9_Witness ==
  /\ phase = "idle" /\ loads = 2
  /\ IdsOf(heap, data.nodes) = <<"A", "B">>
  /\ \E t \in EdgeTypes : TriplesOf(heap, data.links) = << <<"A", "B", t>> >>
  /\ IsStub(heap[data.nodes[1]])
  /\ IsDeclared(heap[data.nodes[2]])
  /\ Len(resp.nodes) = 1
  /\ resp.nodes[1] # data.nodes[2]
  /\ heap[resp.nodes[1]] = heap[data.nodes[2]]

\* C10: for every file path, when didClose for the path has been handled the cache
\* holds no entry for it; when a didOpen or didChange for a .java path whose
\* analysis succeeded has been handled the cache holds the graph of that analysis;
\* and no step changes the entry of a path but these and the analysis of a
\* get-graph request that found the path uncached.
C10_CacheLifecycle ==
  [][/\ ev'.kind = "didClose" => cacheGet(graphCache', ev'.path) = NoGraph
     /\ ev'.kind \in {"didOpen", "didChange"} /\ ev'.analysis = "ok" =>
          cacheGet(graphCache', ev'.path) = ev'.graph
     /\ \A p \in Paths :
          cacheGet(graphCache', p) # cacheGet(graphCache, p) =>
            /\ ev'.path = p
            /\ \/ ev'.kind = "didClose"
               \/ ev'.kind \in {"didOpen", "didChange"} /\ ev'.analysis = "ok"
               \/ /\ ev'.kind = "getGraph" /\ ev'.analysis = "ok"
                  /\ \E t \in Threads \ {MessageThread} :
                       threads[t].pc = "put" /\ threads[t].path = p]_vars

\* C11: when a didChange for a .java path has been handled, the cache entry of the
\* path is the graph of that re-analysis alone: the graph it returned, or no entry
\* when it returned none; a graph of an earlier analysis never stays.
C11_ChangeReplaces ==
  [][ev'.kind = "didChange" /\ ev'.analysis # "skipped" =>
       cacheGet(graphCache', ev'.path) = ev'.graph]_vars

\* C12: a getFileDependencyGraph that finds its path cached answers with the
\* serialization of the cached graph and analyses nothing; one that finds it
\* uncached and whose analyzeFile returns a graph stores that graph in the cache
\* under the path and answers with the serialization of that same graph.
C12_GetOrAnalyze ==
  [][/\ ev'.kind = "getGraph" /\ ev'.analysis = "hit" => runs' = runs
     /\ ev'.kind = "getGraph" /\ ev'.analysis = "ok" =>
          cacheGet(graphCache', ev'.path) = ev'.graph
     /\ ev'.kind = "response" /\ ev'.analysis \in {"hit", "ok"} =>
          /\ ev'.graph # NoGraph
          /\ ev'.response = toJsonObject(codeGraphOf(ev'.graph))]_vars

\* C13: a getFileDependencyGraph whose analysis of the file failed as a whole
\* (analysisEngine.analyzeFile threw, or the engine is not set) answers with
\* exactly the empty graph.
C13_FailureYieldsEmpty ==
  [][ev'.kind = "response" /\ ev'.analysis \in {"failed", "noengine"} =>
       ev'.response = EmptyResponse]_vars

\* C14: at no time are two analyzeFile calls for one file path in progress, and at
\* no time are two threads inside an operation of the cache map.
C14_OneAtATime ==
  /\ \A t1, t2 \in Threads :
       threads[t1].pc = "put" /\ threads[t2].pc = "put"
         /\ threads[t1].path = threads[t2].path => t1 = t2
  /\ Cardinality({t \in Threads : threads[t].pc \in {"put", "remove"}}) <= 1

(***************************************************************************)
(* The analysis pipeline: what a failure does to the rest of the file.     *)
(***************************************************************************)
\* the nodes processNode was called with in a stage, in call order
RECURSIVE invokedOf(_, _)
invokedOf(calls, stage) ==
  IF calls = <<>> THEN <<>>
  ELSE IF Head(calls).stage = stage
       THEN <<Head(calls).node>> \o invokedOf(Tail(calls), stage)
       ELSE invokedOf(Tail(calls), stage)
\* the references of the file that TypeUseStage resolves
TypeUseReferences(u) ==
  Range(fieldsOf(u, "A") \o methodTypesOf(u, "A") \o localsOf(u))
\* the graph holds the edge that this reference of the declaration stands for
HasEdge(g, ref, edgeType) ==
  <<DeclName, targetOf(unit, ref), edgeType>> \in Range(CgTriples(g))

\* C15: in a stage that keeps BaseStage.process, processNode is called once for
\* every extracted node, in extraction order, whether or not it threw for one of
\* them; the stage does not throw, the loop over the stages goes on after it, and
\* a returned analysis has run every stage.
C15_DefaultRunnerIsolates ==
  \A k \in 1..Len(ran) :
    ran[k] \in DefaultRunnerStages =>
      /\ invokedOf(invoked, ran[k]) = extractNodes(ran[k], unit)
      /\ thrownBy # ran[k]
      /\ outcome \in {"running", "returned"}
      /\ outcome = "returned" => ran = Stages
\* the second of three method calls does not resolve: the calls before and after
\* it have their edges, and every stage has run
C15_Witness ==
  /\ outcome = "returned"
  /\ "c2" \in unit.unresolved
  /\ invokedOf(invoked, "MethodCall") = <<"c1", "c2", "c3">>
  /\ HasEdge(codeGraph, "c1", "MethodCall")
  /\ HasEdge(codeGraph, "c3", "MethodCall")
  /\ ~HasEdge(codeGraph, "c2", "MethodCall")
  /\ ran = Stages

\* C16: a file that parses is never failed as a whole: no stage throws out of
\* process, whatever reference of the file does not resolve, so that analyzeFile
\* runs every stage and returns the graph.
C16_NoStageFailsFile ==
  /\ outcome = "thrown" => thrownBy = "parse"
  /\ unit.parses /\ outcome \in {"returned", "thrown"} =>
       outcome = "returned" /\ ran = Stages

\* C17: when one field is the only reference of the file that does not
\* resolve, TypeUseStage leaves a TypeUse edge for the other field, for the
\* return type and the parameter type of the method and for the local variable.
C17_FieldIsolated ==
  \A f \in Range(fieldsOf(unit, "A")) :
    unit.parses /\ unit.unresolved = {f} /\ Len(ran) >= 1 =>
      /\ \A ref \in TypeUseReferences(unit) \ {f} : HasEdge(codeGraph, ref, "TypeUse")
      /\ thrownBy = ""
\* the first field does not resolve; the stage has run
C17_Witness ==
  /\ unit.parses
  /\ ~unit.scenario
  /\ unit.unresolved = {"f1"}
  /\ ran = <<"TypeUse">>
  /\ HasEdge(codeGraph, "f2", "TypeUse")
  /\ HasEdge(codeGraph, "local", "TypeUse")
  /\ ~HasEdge(codeGraph, "f1", "TypeUse")

\* C18: a file that does not parse runs no stage and returns no graph:
\* analyzeFile throws, and it never ends as returned.
C18_ParseFailureThrows ==
  outcome # "idle" /\ ~unit.parses =>
    /\ outcome = "thrown"
    /\ thrownBy = "parse"
    /\ ran = <<>>
    /\ invoked = <<>>
\* analyzeFile was given a file that does not parse and has thrown
C18_Witness ==
  /\ outcome = "thrown"
  /\ ~unit.parses
  /\ thrownBy = "parse"
  /\ ran = <<>>

(***************************************************************************)
(* The sweep: what a file's failure does to the sweep and to its counts.   *)
(***************************************************************************)
\* the heap and the graph that merging the responses of the files counted as
\* successes among the first k attempts gives, in order, from the empty graph
RECURSIVE mergeOfSuccesses(_)
mergeOfSuccesses(k) ==
  IF k = 0 THEN [heap |-> <<>>, graph |-> EmptyGraph]
  ELSE LET prev == mergeOfSuccesses(k - 1)
       IN  IF attempts[k].counted = "success"
           THEN mergeGraphData(parseHeap(prev.heap, attempts[k].json), prev.graph,
                               parseGraph(prev.heap, attempts[k].json))
           ELSE prev
\* the attempts counted this way
CountedAs(c) == {k \in 1..Len(attempts) : attempts[k].counted = c}

\* C19: the sweep tries the files found in order, whatever became of the files
\* before, each counted once as a success or as an error; when it is over every
\* file was tried, successCount + errorCount is the number of files, and the graph
\* returned is the merge of the graphs of the files counted as successes.
C19_SweepNeverAborted ==
  /\ Len(attempts) <= Len(javaFiles)
  /\ \A k \in 1..Len(attempts) : attempts[k].file = javaFiles[k]
  /\ successCount = Cardinality(CountedAs("success"))
  /\ errorCount = Cardinality(CountedAs("error"))
  /\ sweepPc = "done" =>
       /\ Len(attempts) = Len(javaFiles)
       /\ successCount + errorCount = Len(javaFiles)
       /\ mergedGraph = mergeOfSuccesses(Len(attempts)).graph
       /\ sweepHeap = mergeOfSuccesses(Len(attempts)).heap
\* a sweep over two files is over: the request of the first was rejected, the
\* second was analysed, and the graph returned holds the node of the second
C19_Witness ==
  /\ sweepPc = "done"
  /\ Len(javaFiles) = 2
  /\ attempts[1].counted = "error"
  /\ attempts[2].counted = "success" /\ attempts[2].analysis = "ok"
  /\ successCount = 1 /\ errorCount = 1
  /\ Len(mergedGraph.nodes) = 1
  /\ sweepHeap[mergedGraph.nodes[1]].id = declaredClass(javaFiles[2])

\* C20: a file of the sweep whose analysis failed as a whole
\* (analysisEngine.analyzeFile threw) is counted as an error and not as a success.
C20_FailedFilesCounted ==
  \A k \in 1..Len(attempts) :
    attempts[k].analysis = "failed" => attempts[k].counted = "error"

(***************************************************************************)
(* The analysis pipeline: what reaches the cache and the extension, the    *)
(* graph of the scenario, the order of the stages, and the stages one by   *)
(* one.                                                                    *)
(***************************************************************************)
\* the graph holds an edge of this type between the nodes with these names
EdgeIn(g, source, target, edgeType) ==
  <<source, target, edgeType>> \in Range(CgTriples(g))
\* the names of the nodes of the graph
NodeNames(g) == {g.graphNodes[i].nodeName : i \in 1..Len(g.graphNodes)}
\* the node of the graph with this name
NodeNamed(g, name) == g.graphNodes[findGraphNode(g, name)]
\* the graph the analysis stored for the file, as the service serializes it
StoredJson == IF stored.has THEN toJsonObject(stored.graph) ELSE EmptyResponse
\* the identity triples of the links of a serialized graph, in order
JsonTriples(json) ==
  [i \in 1..Len(json.links) |->
     <<json.links[i].source, json.links[i].target, json.links[i].type>>]

\* C21: the cache holds a graph for the file only when analyzeFile returned it
\* after every stage had run, and exactly that graph; when the analysis threw,
\* whatever its stages had written, the cache holds nothing for it, the answer
\* is the empty graph and the extension's graph stays empty; what the extension
\* merged is the stored graph, node for node and edge for edge.
C21_NoPartialLeak ==
  /\ stored.has => outcome = "returned" /\ ran = stages /\ stored.graph = codeGraph
  /\ outcome = "thrown" =>
       /\ ~stored.has
       /\ response.json = EmptyResponse
       /\ received.graph = EmptyGraph
  /\ response.sent => response.json = StoredJson
  /\ servicePc = "merged" =>
       /\ ValuesOf(received.heap, received.graph.nodes) = StoredJson.nodes
       /\ TriplesOf(received.heap, received.graph.links) = JsonTriples(StoredJson)
\* the return type of the method does not resolve: TypeUseStage had written the
\* edges of the two fields when it threw, and neither the cache nor the
\* extension's graph holds anything after the request was answered and merged
C21_Witness ==
  /\ servicePc = "merged"
  /\ outcome = "thrown" /\ thrownBy = "TypeUse"
  /\ EdgeIn(codeGraph, "A", "F1", "TypeUse")
  /\ EdgeIn(codeGraph, "A", "F2", "TypeUse")
  /\ ~stored.has
  /\ received.graph = EmptyGraph

\* C22: the analysis of the file of the scenario, every reference resolving,
\* returns a graph with exactly the edges Extends(A,B), Implements(A,C),
\* TypeUse(A,D), TypeUse(A,E), ObjectCreate(A,F) and MethodCall(A, owner of g),
\* and with no node but A, B, C, D, E, F and the owner of g.
C22_Scenario ==
  unit.scenario /\ unit.parses /\ unit.unresolved = {} /\ outcome = "returned" =>
    /\ Range(CgTriples(codeGraph))
         = {<<"A", "B", "Extends">>, <<"A", "C", "Implements">>,
            <<"A", "D", "TypeUse">>, <<"A", "E", "TypeUse">>,
            <<"A", "F", "ObjectCreate">>, <<"A", ".B", "MethodCall">>}
    /\ NodeNames(codeGraph) \subseteq {"A", "B", "C", "D", "E", "F", ".B"}

\* the nodes of a graph with their values, as a set
NodeSet(g) == Range(toJsonObject(g).nodes)
\* the declarations of the file in the order in which ClassTypeStage,
\* LinesOfCodeStage and FilePathStage write to their nodes
typedDecls(u) == classOrInterfaces(u) \o enums(u) \o annotations(u)
\* the type ClassTypeStage writes for a declaration
typeWritten(u, decl) ==
  IF decl = "E" THEN "Enum" ELSE IF decl = "N" THEN "Annotation"
  ELSE determineClassType(u, decl)
\* the declaration written last under this name
lastDecl(u, name) ==
  typedDecls(u)[CHOOSE i \in 1..Len(typedDecls(u)) :
                  /\ getFullyQualifiedName(typedDecls(u)[i]) = name
                  /\ \A j \in (i + 1)..Len(typedDecls(u)) :
                       getFullyQualifiedName(typedDecls(u)[j]) # name]
\* the names the file declares and the names its references resolve to
DeclaredNames(u) == {getFullyQualifiedName(d) : d \in Range(typedDecls(u))}
\* the edges the references of a file stand for when all of them resolve
EdgesOfFile(u) ==
  {<<DeclName, targetOf(u, r), "TypeUse">> : r \in TypeUseReferences(u)}
    \cup {<<DeclName, targetOf(u, r), "MethodCall">> :
            r \in Range(extractNodes("MethodCall", u))}
    \cup {<<DeclName, targetOf(u, r), "ObjectCreate">> :
            r \in Range(extractNodes("ObjectCreation", u))}
    \cup UNION {{<<getFullyQualifiedName(d), targetOf(u, r), "Extends">> :
                   r \in Range(extendedTypesOf(u, d))} :
                d \in Range(classOrInterfaces(u))}
    \cup UNION {{<<getFullyQualifiedName(d), targetOf(u, r), "Implements">> :
                   r \in Range(implementedTypesOf(u, d))} :
                d \in Range(classOrInterfaces(u))}
\* the nodes of the file when all references resolve: a declared name with the
\* values of the declaration written last under it, a name only referred to as a
\* stub
NodesOfFile(u) ==
  {[id |-> n, name |-> n, type |-> typeWritten(u, lastDecl(u, n)),
    linesOfCode |-> calculateLinesOfCode(u, lastDecl(u, n)),
    filePath |-> storageOf(u)] : n \in DeclaredNames(u)}
    \cup {[id |-> e[2], name |-> e[2], type |-> "Unknown", linesOfCode |-> -1,
           filePath |-> Null] : e \in {e \in EdgesOfFile(u) : e[2] \notin DeclaredNames(u)}}

\* C23: for a file whose references all resolve, the graph the eight stages
\* leave when run in any order, the shipped order among them, has one and the
\* same set of nodes, with the same type, linesOfCode and filePath, and one and
\* the same set of edges: those of the declarations and references of the file.
C23_OrderInsensitive ==
  outcome = "returned" =>
    /\ NodeSet(codeGraph) = NodesOfFile(unit)
    /\ Range(CgTriples(codeGraph)) = EdgesOfFile(unit)
    /\ Len(codeGraph.graphNodes) = Cardinality(NodesOfFile(unit))
    /\ Len(codeGraph.graphEdges) = Cardinality(EdgesOfFile(unit))
\* the stages ran with FilePathStage first and TypeUseStage last: the second node
\* of the graph is the one of the local classes, where the shipped order has the
\* type of the first field
C23_Witness ==
  /\ outcome = "returned"
  /\ stages[1] = "FilePath" /\ stages[Len(stages)] = "TypeUse"
  /\ ran = stages
  /\ codeGraph.graphNodes[2].nodeName = "Unknown"
  /\ EdgeIn(codeGraph, "A", "F1", "TypeUse")

\* C25: once ClassTypeStage has run, the node of every declaration has the type
\* of the declaration written last under its name: Interface, AbstractClass or
\* Class for a class or interface declaration, Enum for an enum, Annotation for
\* an annotation declaration; for a name only one declaration has, that is the
\* type of that declaration.
C25_ClassType ==
  (\E k \in 1..Len(ran) : ran[k] = "ClassType") =>
    \A i \in 1..Len(typedDecls(unit)) :
      (\A j \in (i + 1)..Len(typedDecls(unit)) :
         getFullyQualifiedName(typedDecls(unit)[j])
           # getFullyQualifiedName(typedDecls(unit)[i])) =>
        /\ getFullyQualifiedName(typedDecls(unit)[i]) \in NodeNames(codeGraph)
        /\ NodeNamed(codeGraph, getFullyQualifiedName(typedDecls(unit)[i])).type
             = typeWritten(unit, typedDecls(unit)[i])
\* ClassTypeStage has run on the file with the abstract class A: every kind of
\* declaration has its type, and the node of the two local classes has the type of
\* the second
C25_Witness ==
  /\ ran # <<>>
  /\ ran[Len(ran)] = "ClassType"
  /\ unit.abstract
  /\ NodeNamed(codeGraph, "A").type = "AbstractClass"
  /\ NodeNamed(codeGraph, "I").type = "Interface"
  /\ NodeNamed(codeGraph, "B").type = "Class"
  /\ NodeNamed(codeGraph, "E").type = "Enum"
  /\ NodeNamed(codeGraph, "N").type = "Annotation"
  /\ NodeNamed(codeGraph, "Unknown").type = "Class"

\* C26: once ExtendsStage has run, every declaration has an Extends edge to each
\* of its supertypes that resolves, wherever it stands in the list; a supertype
\* that does not resolve has no edge and no node, and the stage has not thrown.
C26_ExtendsSkips ==
  (\E k \in 1..Len(ran) : ran[k] = "Extends") =>
    /\ thrownBy # "Extends"
    /\ \A d \in Range(classOrInterfaces(unit)) :
         \A ref \in Range(extendedTypesOf(unit, d)) :
           IF ref \in unit.unresolved
           THEN /\ ~EdgeIn(codeGraph, getFullyQualifiedName(d), targetOf(unit, ref),
                           "Extends")
                /\ targetOf(unit, ref) \notin NodeNames(codeGraph)
           ELSE EdgeIn(codeGraph, getFullyQualifiedName(d), targetOf(unit, ref),
                       "Extends")
\* the second of the three supertypes of I does not resolve: the first and the
\* third have their edges
C26_Witness ==
  /\ ran # <<>>
  /\ ran[Len(ran)] = "Extends"
  /\ unit.unresolved = {"sup2"}
  /\ EdgeIn(codeGraph, "I", "Sup1", "Extends")
  /\ EdgeIn(codeGraph, "I", "Sup3", "Extends")
  /\ "Sup2" \notin NodeNames(codeGraph)

\* the position of the first interface of the list that does not resolve, one
\* past the list when all resolve
firstUnresolved(u, refs) ==
  IF \E i \in 1..Len(refs) : refs[i] \in u.unresolved
  THEN CHOOSE i \in 1..Len(refs) :
         /\ refs[i] \in u.unresolved
         /\ \A j \in 1..(i - 1) : refs[j] \notin u.unresolved
  ELSE Len(refs) + 1

\* C27: once ImplementsStage has run, every declaration has the Implements edges
\* of its interfaces before the first that does not resolve and none for that one
\* or a later one; processNode was called for every declaration of the unit, and
\* the stage has not thrown.
C27_ImplementsPerDeclaration ==
  (\E k \in 1..Len(ran) : ran[k] = "Implements") =>
    /\ thrownBy # "Implements"
    /\ invokedOf(invoked, "Implements") = classOrInterfaces(unit)
    /\ \A d \in Range(classOrInterfaces(unit)) :
         \A i \in 1..Len(implementedTypesOf(unit, d)) :
           EdgeIn(codeGraph, getFullyQualifiedName(d),
                  targetOf(unit, implementedTypesOf(unit, d)[i]), "Implements")
             <=> i < firstUnresolved(unit, implementedTypesOf(unit, d))
\* the second of the three interfaces of A does not resolve: the first has its
\* edge, the third has none, and B, declared after A, has its own
C27_Witness ==
  /\ ran # <<>>
  /\ ran[Len(ran)] = "Implements"
  /\ unit.unresolved = {"impl2"}
  /\ EdgeIn(codeGraph, "A", "Impl1", "Implements")
  /\ ~EdgeIn(codeGraph, "A", "Impl3", "Implements")
  /\ EdgeIn(codeGraph, "B", "Impl4", "Implements")

\* C28: when the return type or a parameter type of a method does not resolve,
\* TypeUseStage.process throws: analyzeFile has thrown after TypeUseStage alone,
\* no later stage has run, and the service holds no graph for the file.
C28_SignatureFailureThrows ==
  unit.parses /\ Len(ran) >= 1
    /\ Range(methodTypesOf(unit, "A")) \cap unit.unresolved # {} =>
      /\ outcome = "thrown"
      /\ thrownBy = "TypeUse"
      /\ ran = <<"TypeUse">>
      /\ ~stored.has
\* the parameter type does not resolve: the request was answered with nothing
\* stored, after the edge of the return type had been written
C28_Witness ==
  /\ unit.unresolved = {"param"}
  /\ ~unit.scenario
  /\ thrownBy = "TypeUse"
  /\ EdgeIn(codeGraph, "A", "Ret", "TypeUse")
  /\ servicePc = "answered"
  /\ ~stored.has

\* C24: under every interleaving of the sweep, the analyzeCurrentFile commands
\* and the webview and settings events, at most one mergeGraphData call is under
\* way on a target at any time, the thread belongs to a handler that is inside
\* mergeGraphData, and no handler touches the nodes or links of a target while
\* the mergeGraphData call of another handler on that target is under way.
C24_SingleWriter ==
  /\ \A t1, t2 \in MergeTasks :
       inMerge(t1) /\ inMerge(t2) /\ mergeTarget(t1) = mergeTarget(t2) => t1 = t2
  /\ \A t \in MergeTasks : inMerge(t) => jsThread = t /\ merging[mergeTarget(t)] = t
  /\ touched.during \in {NoTask, touched.by}
\* the sweep is inside mergeGraphData on mergedGraph while both analyzeCurrentFile
\* commands await their analysis
C24_Witness ==
  /\ taskPc["analyzeProject"] = "mergeLinks"
  /\ taskPc["analyzeCurrentFile1"] = "awaiting"
  /\ taskPc["analyzeCurrentFile2"] = "awaiting"
  /\ touched = [by |-> "analyzeProject", target |-> "mergedGraph",
                during |-> "analyzeProject"]

\* the messages posted, as pairs of webview and message
PostedPairs == {<<posted[i].to, posted[i].msg>> : i \in 1..Len(posted)}

\* C29: a message is posted to a webview only once that webview has reported
\* ready; no message is posted twice and the messages are posted in the order of
\* their sends; once the bridge is ready the queue is empty; and the messages
\* sent to the attached webview, from its attach on, are all posted to it once it
\* has reported ready.
C29_ReadyHandshake ==
  /\ \A i \in 1..Len(posted) : posted[i].toReported
  /\ \A i, j \in 1..Len(posted) : i < j => posted[i].msg < posted[j].msg
  /\ bridgeReady => queue = <<>>
  /\ webview \in reported =>
       \A n \in 1..Len(sendLog) : sendLog[n] = webview => <<webview, n>> \in PostedPairs

\* C30: the update calls of a notifyAll call are one call for each observer
\* attached at that moment and none for any other, each with the controls loaded
\* by that call, whether or not updates threw; the observers the subject keeps
\* are those attached and not detached since, each once.
C30_NotifyIsolated ==
  /\ {updates.calls[i].observer : i \in 1..Len(updates.calls)} = updates.expected
  /\ Len(updates.calls) = Cardinality(updates.expected)
  /\ \A i \in 1..Len(updates.calls) : updates.calls[i].controls = updates.loaded
  /\ Range(observers) = attachedNow
  /\ Len(observers) = Cardinality(attachedNow)
\* a notifyAll call after a save, with two observers attached, one of them
\* attached twice, the third detached: the update of the first threw and the
\* second was still updated
C30_Witness ==
  /\ Len(updates.calls) = 2
  /\ updates.calls[1].threw
  /\ updates.calls[2].observer = "filterProvider"
  /\ attachCalls["filterProvider"] = 2
  /\ updates.loaded = 1
  /\ observers = <<"graphViewProvider", "filterProvider">>
  /\ updates.expected = {"graphViewProvider", "filterProvider"}


(***************************************************************************)
(* GraphViewContext: the rendering strategies of the webview.              *)
(***************************************************************************)
\* the keys of the object _availableStrategies
StrategyKeys == {"2d", "3d"}
\* the names setStrategy is called with: the two strategies, a name that is no
\* property of the object, and a name that is a property of every object
StrategyNames == StrategyKeys \cup {"4d", "constructor"}
\* the properties an object literal inherits from Object.prototype
InheritedProperties == {"constructor"}
\* undefined
Undefined == "<undefined>"
\* this._availableStrategies[strategyName]: the own property, else the inherited
\* one, else undefined
availableStrategy(name) ==
  IF name \in StrategyKeys THEN name
  ELSE IF name \in InheritedProperties THEN "Object.prototype." \o name
  ELSE Undefined
\* what a call leaves for the next state
ViewCall(op, name, returned) ==
  [op |-> op, name |-> name, returned |-> returned,
   strategyBefore |-> strategy, graphBefore |-> graphInstance]
\* setStrategy(strategyName)
setStrategy(op, name) ==
  LET newStrategy == availableStrategy(name)
      changed == strategy # newStrategy
  IN  IF newStrategy = Undefined
      THEN /\ viewCall' = ViewCall(op, name, FALSE)
           /\ UNCHANGED <<strategy, graphInstance, graphsCreated>>
      ELSE /\ viewCall' = ViewCall(op, name, changed)
           /\ strategy' = newStrategy
           /\ graphInstance' = IF changed THEN Null ELSE graphInstance
           /\ UNCHANGED graphsCreated
\* initialize(container, context): a value that is no strategy has no
\* initializeGraph and the call throws; initializeGraph answers null when the
\* container or the library is missing or the creation fails
initialize(op, created) ==
  IF strategy \notin StrategyKeys
  THEN /\ viewCall' = ViewCall(op, "TypeError", FALSE)
       /\ UNCHANGED <<strategy, graphInstance, graphsCreated>>
  ELSE /\ created => graphsCreated < MaxGraphs
       /\ viewCall' = ViewCall(op, "", created)
       /\ graphInstance' = IF created THEN strategy ELSE graphInstance
       /\ graphsCreated' = IF created THEN graphsCreated + 1 ELSE graphsCreated
       /\ UNCHANGED strategy

\* a call of setStrategy
SetStrategy ==
  /\ \E name \in StrategyNames : setStrategy("setStrategy", name)
  /\ UNCHANGED exceptView

\* toggleMode(mode): setStrategy(mode ? '3d' : '2d')
ToggleMode ==
  /\ \E mode \in BOOLEAN : setStrategy("toggleMode", IF mode THEN "3d" ELSE "2d")
  /\ UNCHANGED exceptView

\* a call of initialize
Initialize ==
  /\ \E created \in BOOLEAN : initialize("initialize", created)
  /\ UNCHANGED exceptView

\* update(context, options): initialize if there is no graph and the container
\* exists, then updateGraph of the strategy
UpdateView ==
  /\ \E container, created \in BOOLEAN :
       IF graphInstance = Null
       THEN IF container THEN initialize("update", created)
            ELSE /\ viewCall' = ViewCall("update", "", FALSE)
                 /\ UNCHANGED <<strategy, graphInstance, graphsCreated>>
       ELSE /\ viewCall' = ViewCall("update", IF strategy \in StrategyKeys THEN ""
                                              ELSE "TypeError", TRUE)
            /\ UNCHANGED <<strategy, graphInstance, graphsCreated>>
  /\ UNCHANGED exceptView

NextView ==
  \/ SetStrategy
  \/ ToggleMode
  \/ Initialize
  \/ UpdateView

SpecView == Init /\ [][NextView]_vars

\* C31: setStrategy answers true exactly when the name is that of a strategy
\* other than the current one, and then the graph is null; a name of no strategy
\* changes nothing; and a graph that is not null was created by the current
\* strategy.
C31_StrategySwitch ==
  /\ viewCall.op \in {"setStrategy", "toggleMode"} =>
       /\ viewCall.returned =
            (viewCall.name \in StrategyKeys /\ viewCall.name # viewCall.strategyBefore)
       /\ viewCall.returned => strategy = viewCall.name /\ graphInstance = Null
       /\ ~viewCall.returned =>
            strategy = viewCall.strategyBefore /\ graphInstance = viewCall.graphBefore
  /\ graphInstance # Null => graphInstance = strategy


(***************************************************************************)
(* GraphViewModel._computeSlice: the dependency slice of the focused node. *)
(***************************************************************************)
\* the ids of the nodes of the webview's graph
SliceNodeIds == {"a", "b", "c", "d"}
\* the links of the graph, by the ids of their ends
SliceLinks == {l \in SliceNodeIds \X SliceNodeIds : l[1] # l[2]}
\* the link lists of the model: no link twice
SliceLinkLists ==
  {<<>>} \cup {<<l>> : l \in SliceLinks}
    \cup {ls \in UNION {[1..n -> SliceLinks] : n \in 2..MaxSliceLinks} :
            \A i, j \in 1..Len(ls) : ls[i] = ls[j] => i = j}
\* the end a visit starts from and the end it goes to: source and target when
\* the links are followed forwards, target and source when backwards
nearEnd(link, isForward) == IF isForward THEN link[1] ELSE link[2]
farEnd(link, isForward) == IF isForward THEN link[2] ELSE link[1]
\* visitForward and visitBackward: links.forEach from link i on, for the node
\* and the depth of the visit, on the sets collected so far
RECURSIVE visitEach(_, _, _, _, _, _)
visitEach(links, isForward, nodeId, depth, i, sets) ==
  IF depth <= 0 \/ i > Len(links) THEN sets
  ELSE IF nearEnd(links[i], isForward) # nodeId
       THEN visitEach(links, isForward, nodeId, depth, i + 1, sets)
       ELSE LET far == farEnd(links[i], isForward)
                added == [sets EXCEPT !.sliceLinks = @ \cup {links[i]}]
            IN  IF far \in sets.sliceNodes
                THEN visitEach(links, isForward, nodeId, depth, i + 1, added)
                ELSE visitEach(links, isForward, nodeId, depth, i + 1,
                       visitEach(links, isForward, far, depth - 1, 1,
                                 [added EXCEPT !.sliceNodes = @ \cup {far}]))
\* _computeSlice(focusedNode, controls, links), a node being focused
computeSlice(in) ==
  IF ~(in.forward \/ in.backward)
  THEN [isNull |-> TRUE, sliceNodes |-> {}, sliceLinks |-> {}]
  ELSE LET start == [isNull |-> FALSE, sliceNodes |-> {in.focus}, sliceLinks |-> {}]
           fwd == IF in.forward
                  THEN visitEach(in.links, TRUE, in.focus, in.depth, 1, start)
                  ELSE start
       IN  IF in.backward
           THEN visitEach(in.links, FALSE, in.focus, in.depth, 1, fwd)
           ELSE fwd

\* _computePresentationSlice for a focused node, the controls and the links of
\* the model, once
ComputeSlice ==
  /\ sliceInput.focus = Null
  /\ \E focus \in SliceNodeIds, depth \in 1..MaxSliceDepth,
        forward, backward \in BOOLEAN, links \in SliceLinkLists :
       /\ sliceInput' = [focus |-> focus, depth |-> depth, forward |-> forward,
                         backward |-> backward, links |-> links]
       /\ sliceResult' = computeSlice(sliceInput')
  /\ UNCHANGED exceptSlice

NextSlice == ComputeSlice

SpecSlice == Init /\ [][NextSlice]_vars

\* the nodes reachable from a node by at most d links followed in one direction
RECURSIVE ReachWithin(_, _, _, _)
ReachWithin(links, isForward, from, d) ==
  IF d = 0 THEN from
  ELSE ReachWithin(links, isForward,
         from \cup {farEnd(links[i], isForward) :
                      i \in {k \in 1..Len(links) : nearEnd(links[k], isForward) \in from}},
         d - 1)

\* C32: sliceNodes is the focused node with the nodes reachable from it by at
\* most sliceDepth links forwards, when the forward slice is enabled, and by at
\* most sliceDepth links backwards, when the backward slice is enabled, whatever
\* the order of the links.
C32_SliceIsReachable ==
  ~sliceResult.isNull =>
    sliceResult.sliceNodes =
      {sliceInput.focus}
        \cup (IF sliceInput.forward
              THEN ReachWithin(sliceInput.links, TRUE, {sliceInput.focus}, sliceInput.depth)
              ELSE {})
        \cup (IF sliceInput.backward
              THEN ReachWithin(sliceInput.links, FALSE, {sliceInput.focus}, sliceInput.depth)
              ELSE {})


(***************************************************************************)
(* GraphModel.update and GraphView._applyFilter: the graph handed to the   *)
(* renderer.                                                               *)
(***************************************************************************)
\* the nodes the extension sends: their ids, as letters, and their types
FilterNodes == <<[id |-> <<"a">>, type |-> "Class"],
                 [id |-> <<"a", "b">>, type |-> "Interface"],
                 [id |-> <<"c">>, type |-> "Class"]>>
\* the node lists of the model: the first nodes of FilterNodes
FilterNodeLists == {SubSeq(FilterNodes, 1, n) : n \in 0..Len(FilterNodes)}
\* the types of the nodes and of the links
FilterNodeTypes == {"Class", "Interface"}
FilterEdgeTypes == {"Extends", "TypeUse"}
\* the links the extension sends; an end need not be a node of the list
FilterLinks ==
  {[source |-> FilterNodes[i].id, target |-> FilterNodes[j].id, type |-> t] :
     i \in 1..Len(FilterNodes), j \in 1..Len(FilterNodes), t \in FilterEdgeTypes}
\* the link lists of the model: no link twice, no link from a node to itself
FilterLinkLists ==
  {ls \in UNION {[1..n -> {l \in FilterLinks : l.source # l.target}] :
                   n \in 0..MaxFilterLinks} :
     \A i, j \in 1..Len(ls) : ls[i] = ls[j] => i = j}
\* typeFilters.node and typeFilters.edge: per type true, false or no entry
TypeMaps(types) == [types -> {"true", "false", "undefined"}]
\* the search queries: none, and two that hold no colon
SearchQueries == {<<>>, <<"A">>, <<"b">>}
\* String.toLowerCase, on the letters of the model
toLowerCase(text) == [i \in 1..Len(text) |-> IF text[i] = "A" THEN "a" ELSE text[i]]
\* String.includes
includes(text, q) ==
  \E i \in 0..(Len(text) - Len(q)) : SubSeq(text, i + 1, i + Len(q)) = q
\* _matchesSearchQuery(node, query) for a query without a colon; the name of a
\* node is its id
matchesSearchQuery(node, query) ==
  query = <<>> \/ includes(toLowerCase(node.id), toLowerCase(query))
\* GraphModel._preprocessLinks: node.neighbors, the ids of the other ends of the
\* links with both ends among the nodes
neighbors(nodes, links, id) ==
  LET ids == {nodes[k].id : k \in 1..Len(nodes)}
      both == {i \in 1..Len(links) : links[i].source \in ids /\ links[i].target \in ids}
  IN  {links[i].target : i \in {k \in both : links[k].source = id}}
      \cup {links[i].source : i \in {k \in both : links[k].target = id}}
\* controls.hideIsolatedNodes && (!node.neighbors || node.neighbors.length === 0)
hidesIsolated(in, node) ==
  in.hideIsolatedNodes /\ neighbors(in.nodes, in.links, node.id) = {}
\* the test of the ends of a link against the ids of the nodes kept
endsKept_Source(nodeIds, link) == link.source \in nodeIds
endsKept(nodeIds, link) == link.source \in nodeIds /\ link.target \in nodeIds
\* _applyFilter(nodes, links, state)
applyFilter(in) ==
  LET keepNode(node) ==
        /\ in.nodeTypeMap[node.type] # "false"
        /\ ~hidesIsolated(in, node)
        /\ matchesSearchQuery(node, in.search)
      filteredNodes == SelectSeq(in.nodes, keepNode)
      nodeIds == {filteredNodes[k].id : k \in 1..Len(filteredNodes)}
      keepLink(link) ==
        /\ in.edgeTypeMap[link.type] # "false"
        /\ endsKept(nodeIds, link)
  IN  [done |-> TRUE, nodes |-> filteredNodes, links |-> SelectSeq(in.links, keepLink)]

\* a GRAPH_UPDATE with data and controls: GraphModel.update, then updateGraph,
\* which hands the result of _applyFilter to the renderer; once
ApplyFilter ==
  /\ ~filterOutput.done
  /\ \E nodes \in FilterNodeLists, links \in FilterLinkLists,
        nodeTypeMap \in TypeMaps(FilterNodeTypes), edgeTypeMap \in TypeMaps(FilterEdgeTypes),
        hide \in BOOLEAN, search \in SearchQueries :
       /\ filterInput' = [nodes |-> nodes, links |-> links, nodeTypeMap |-> nodeTypeMap,
                          edgeTypeMap |-> edgeTypeMap, hideIsolatedNodes |-> hide,
                          search |-> search]
       /\ filterOutput' = applyFilter(filterInput')
  /\ UNCHANGED exceptFilter

NextFilter == ApplyFilter

SpecFilter == Init /\ [][NextFilter]_vars

\* the ids of the nodes handed to the renderer
RenderedIds == {filterOutput.nodes[k].id : k \in 1..Len(filterOutput.nodes)}

\* C33: with hideIsolatedNodes enabled, every node handed to the renderer is an
\* end of a link handed to the renderer.
C33_NoIsolatedNode ==
  filterOutput.done /\ filterInput.hideIsolatedNodes =>
    \A id \in RenderedIds :
      \E i \in 1..Len(filterOutput.links) :
        id \in {filterOutput.links[i].source, filterOutput.links[i].target}

\* C40: every link handed to the renderer has both its ends among the nodes
\* handed to the renderer, and its type is not disabled in typeFilters.edge.
C40_NoDanglingLink ==
  filterOutput.done =>
    \A i \in 1..Len(filterOutput.links) :
      /\ filterOutput.links[i].source \in RenderedIds
      /\ filterOutput.links[i].target \in RenderedIds
      /\ filterInput.edgeTypeMap[filterOutput.links[i].type] # "false"
\* a link from a node kept to a node the type filter removes is dropped, and a
\* link between two nodes kept is handed on
C40_Witness ==
  /\ filterOutput.done
  /\ Len(filterInput.links) = 2
  /\ Len(filterOutput.links) = 1
  /\ Len(filterInput.nodes) = 3
  /\ filterInput.nodeTypeMap["Interface"] = "false"
  /\ filterInput.edgeTypeMap = [t \in FilterEdgeTypes |-> "true"]
  /\ filterInput.links[1].target = <<"a", "b">>
  /\ RenderedIds = {<<"a">>, <<"c">>}


(***************************************************************************)
(* GraphViewProvider.handleDataUpdate: the queue of data updates.          *)
(***************************************************************************)
\* the updates the handlers submit: the focus of a file, and any other
UpdateKinds == {"focusNode", "other"}
\* the n-th update submitted
Update(n, kind) == [n |-> n, type |-> kind]
\* handleDataUpdate with no test of _updating
entersDrain_Always(isUpdating) == TRUE
\* handleDataUpdate: if (this._updating) return
entersDrain(isUpdating) == ~isUpdating
\* one turn of while (this._updateQueue.length): shift an update, call
\* _applyDataUpdate with it and await the call
drainTurn(q) ==
  /\ updateQueue' = Tail(q)
  /\ applied' = Append(applied, Head(q))

\* handleDataUpdate(data), called by the handler of a change of the active
\* editor: the update is queued; if no loop is draining, this call drains
HandleDataUpdate ==
  /\ Len(submitted) < MaxUpdates
  /\ \E kind \in UpdateKinds :
       LET update == Update(Len(submitted) + 1, kind)
       IN  /\ submitted' = Append(submitted, update)
           /\ IF entersDrain(updating)
              THEN /\ updating' = TRUE
                   /\ drainTurn(Append(updateQueue, update))
                   /\ drains' = drains + 1
              ELSE /\ updateQueue' = Append(updateQueue, update)
                   /\ UNCHANGED <<updating, drains, applied>>
  /\ UNCHANGED exceptQueue

\* the awaited _applyDataUpdate call of a loop has resolved: the loop takes the
\* next update, or leaves and the finally block resets _updating
DrainResumes ==
  /\ drains > 0
  /\ IF updateQueue # <<>>
     THEN /\ drainTurn(updateQueue)
          /\ UNCHANGED <<updating, drains>>
     ELSE /\ updating' = FALSE
          /\ drains' = drains - 1
          /\ UNCHANGED <<updateQueue, applied>>
  /\ UNCHANGED submitted
  /\ UNCHANGED exceptQueue

NextQueue ==
  \/ HandleDataUpdate
  \/ DrainResumes

SpecQueue == Init /\ [][NextQueue]_vars

\* C34: at most one _applyDataUpdate call is awaited at a time; the updates
\* applied, followed by those queued, are the updates submitted, in order and
\* each once; and when no loop is draining the queue is empty and _updating is
\* false.
C34_SerializedUpdates ==
  /\ drains <= 1
  /\ applied \o updateQueue = submitted
  /\ drains = 0 => updateQueue = <<>> /\ ~updating
  /\ drains = 1 => updating
\* two updates arrived while the first was awaited; the loop has applied the
\* first two and the third waits in the queue
C34_Witness ==
  /\ Len(submitted) = 3
  /\ Len(applied) = 2
  /\ updateQueue = <<Update(3, "focusNode")>>
  /\ drains = 1


(***************************************************************************)
(* The data sync: GraphViewProvider sends its data with a version, the     *)
(* webview replaces its model when the version differs.                    *)
(***************************************************************************)
\* the graphs handed to the provider, by what they hold
GraphTokens == {"g1", "g2"}
\* the message syncToWebview sends: GRAPH_UPDATE with data: this._data, a
\* reference, and dataVersion, or VIEW_UPDATE with the controls only
GraphUpdate == [type |-> "graph:update", data |-> dataRef', dataVersion |-> providerVersion']
ViewUpdate == [type |-> "view:update", data |-> 0, dataVersion |-> 0]
\* webview.postMessage(message): the message is serialized as the objects are at
\* that moment
serialized(objects, m) ==
  [type |-> m.type,
   data |-> IF m.type = "graph:update" THEN objects[m.data] ELSE {},
   dataVersion |-> m.dataVersion]
\* the messages of a queue, serialized
serializedAll(objects, q) == [i \in 1..Len(q) |-> serialized(objects, q[i])]
\* mergeGraphData and setGraphData with no increment of the version
nextVersion_Same(v) == v
\* this._dataVersion++
nextVersion(v) == v + 1
\* WebviewBridge.send(type, payload) with a view resolved: post or queue
syncSend(isReady, m) ==
  /\ Len(syncQueue) + Len(channel) < MaxPending
  /\ IF isReady
     THEN /\ channel' = Append(channel, serialized(dataObjects', m))
          /\ UNCHANGED syncQueue
     ELSE /\ syncQueue' = Append(syncQueue, m)
          /\ UNCHANGED channel
\* syncToWebview(): nothing without a view
syncToWebview(m) ==
  IF viewCount = 0 THEN UNCHANGED <<syncQueue, channel>> ELSE syncSend(syncReady, m)

\* what setGraphData may be handed: null, a string, an array, or an object whose
\* nodes and links are an array, undefined or a string
GraphDataShapes ==
  {[kind |-> k, nodes |-> "undefined", links |-> "undefined"] : k \in {"null", "string", "array"}}
    \cup [kind : {"object"}, nodes : {"array", "undefined", "string"},
                             links : {"array", "undefined", "string"}]
\* validateGraphData that does not look at data.links
throws_NodesOnly(d) ==
  \/ d.kind \in {"null", "string"}
  \/ d.nodes # "array"
\* validateGraphData(data) throws: !data || typeof data !== 'object', then
\* !Array.isArray(data.nodes), then !Array.isArray(data.links)
throws(d) ==
  \/ d.kind \in {"null", "string"}
  \/ d.nodes # "array"
  \/ d.links # "array"
\* what setGraphData may change at the provider and towards the webview
syncState == <<dataObjects, dataRef, providerVersion, syncQueue, channel>>

\* resolveWebviewView: a new webview with a new model is attached, the queue is
\* emptied and syncToWebview queues the data
ResolveViewForSync ==
  /\ viewCount < MaxViews
  /\ UNCHANGED <<dataObjects, dataRef, providerVersion, readySent>>
  /\ viewCount' = viewCount + 1
  /\ syncReady' = FALSE
  /\ syncQueue' = <<GraphUpdate>>
  /\ channel' = <<>>
  /\ modelVersion' = 0
  /\ modelData' = {}
  /\ UNCHANGED setCall
  /\ UNCHANGED exceptSync

\* GraphViewProvider.mergeGraphData(newData): the current graph object takes
\* what newData holds, the version is incremented, syncToWebview
ProviderMerges ==
  /\ providerVersion < MaxVersions
  /\ \E g \in GraphTokens :
       dataObjects' = [dataObjects EXCEPT ![dataRef] = @ \cup {g}]
  /\ providerVersion' = nextVersion(providerVersion)
  /\ UNCHANGED dataRef
  /\ syncToWebview(GraphUpdate)
  /\ UNCHANGED <<viewCount, readySent, syncReady, modelVersion, modelData>>
  /\ UNCHANGED setCall
  /\ UNCHANGED exceptSync

\* GraphViewProvider.setGraphData(data): validateGraphData first, then _data is a
\* new object, the version is incremented, syncToWebview
ProviderSets ==
  \E d \in GraphDataShapes :
    /\ IF throws(d)
       THEN UNCHANGED <<dataObjects, dataRef, providerVersion, syncQueue, channel>>
       ELSE /\ providerVersion < MaxVersions
            /\ \E g \in GraphTokens : dataObjects' = Append(dataObjects, {g})
            /\ dataRef' = Len(dataObjects) + 1
            /\ providerVersion' = nextVersion(providerVersion)
            /\ syncToWebview(GraphUpdate)
    /\ setCall' = [called |-> TRUE, data |-> d, threw |-> throws(d),
                   changed |-> syncState' # syncState]
    /\ UNCHANGED <<viewCount, readySent, syncReady, modelVersion, modelData>>
    /\ UNCHANGED exceptSync

\* handleSettingsChanged: syncToWebview({ viewOnly: true })
ProviderSendsView ==
  /\ viewCount > 0
  /\ UNCHANGED <<dataObjects, dataRef, providerVersion>>
  /\ syncToWebview(ViewUpdate)
  /\ UNCHANGED <<viewCount, readySent, syncReady, modelVersion, modelData>>
  /\ UNCHANGED setCall
  /\ UNCHANGED exceptSync

\* the ready message of a webview, the attached one or an earlier one: markReady
\* posts the queue to the attached webview, then syncToWebview posts the data
ReadyHandled(w) ==
  /\ w \in 1..viewCount
  /\ w \notin readySent
  /\ readySent' = readySent \cup {w}
  /\ syncReady' = TRUE
  /\ UNCHANGED <<dataObjects, dataRef, providerVersion>>
  /\ channel' = channel \o serializedAll(dataObjects, syncQueue)
                  \o <<serialized(dataObjects, GraphUpdate)>>
  /\ syncQueue' = <<>>
  /\ UNCHANGED <<viewCount, modelVersion, modelData>>
  /\ UNCHANGED setCall
  /\ UNCHANGED exceptSync

\* the attached webview handles the next message: _handleGraphUpdate replaces the
\* model when the version of the payload differs from the version of the model
WebviewHandles ==
  /\ channel # <<>>
  /\ channel' = Tail(channel)
  /\ LET m == Head(channel)
     IN  IF m.type = "graph:update" /\ m.dataVersion # modelVersion
         THEN /\ modelData' = m.data
              /\ modelVersion' = m.dataVersion
         ELSE UNCHANGED <<modelData, modelVersion>>
  /\ UNCHANGED <<dataObjects, dataRef, providerVersion, viewCount, readySent,
                 syncReady, syncQueue>>
  /\ UNCHANGED setCall
  /\ UNCHANGED exceptSync

NextSync ==
  \/ ResolveViewForSync
  \/ ProviderMerges
  \/ ProviderSets
  \/ ProviderSendsView
  \/ \E w \in 1..MaxViews : ReadyHandled(w)
  \/ WebviewHandles

SpecSync == Init /\ [][NextSync]_vars

\* C35: whenever the data of the provider changes its version has increased; the
\* model of the webview changes only together with its version; and once the
\* attached webview has reported ready and has handled every message posted to
\* it, its model has the version and the data of the provider.
C35_VersionedSync ==
  /\ [][(dataObjects' # dataObjects \/ dataRef' # dataRef)
          => providerVersion' > providerVersion]_vars
  /\ [][modelData' # modelData => modelVersion' # modelVersion]_vars
  /\ [](viewCount > 0 /\ viewCount \in readySent /\ channel = <<>> /\ syncQueue = <<>>
          => modelVersion = providerVersion /\ modelData = dataObjects[dataRef])
\* the second webview has reported ready and handled every message, after a
\* merge into the graph object set before: its model holds both graphs
C35_Witness ==
  /\ viewCount = 2
  /\ 2 \in readySent
  /\ channel = <<>>
  /\ providerVersion = 2
  /\ modelVersion = 2
  /\ dataRef = 2
  /\ modelData = {"g1", "g2"}


\* C36: setGraphData with data that is not an object, or whose nodes or links is
\* not an array, throws, and the data of the provider, its version, the queue of
\* the bridge and the messages posted are as before the call.
C36_RejectedChangesNothing ==
  setCall.called /\ (\/ setCall.data.kind # "object"
                     \/ setCall.data.nodes # "array"
                     \/ setCall.data.links # "array")
    => setCall.threw /\ ~setCall.changed
\* setGraphData was handed an object with nodes and no links while the provider
\* held data at version 2 and a webview was attached and ready
C36_Witness ==
  /\ setCall.called
  /\ setCall.data = [kind |-> "object", nodes |-> "array", links |-> "undefined"]
  /\ setCall.threw
  /\ providerVersion = 2
  /\ syncReady
  /\ ~setCall.changed


\* C37: when didClose for a path has been handled the cache holds no entry for
\* it; an entry for a path appears only by the put of a didOpen or didChange, or
\* of a request that started after the last close of the path; and a request that
\* was in progress when its path was closed never writes the cache.
C37_CloseWins ==
  [][/\ ev'.kind = "didClose" => cacheGet(graphCache', ev'.path) = NoGraph
     /\ \A p \in Paths :
          cacheGet(graphCache, p) = NoGraph /\ cacheGet(graphCache', p) # NoGraph =>
            \E t \in Threads \ staleTasks :
              threads[t].pc = "put" /\ threads[t].path = p /\ threads'[t].pc # "put"
     /\ \A t \in staleTasks : threads[t].pc = "put" => threads'[t].pc = "put"]_vars


(***************************************************************************)
(* Referential integrity of the graphs.                                    *)
(***************************************************************************)
\* every edge of a CodeGraph has its two nodes in the node list of the graph
edgesWithinNodes(g) ==
  \A i \in 1..Len(g.graphEdges) :
    /\ g.graphEdges[i].sourceNode \in 1..Len(g.graphNodes)
    /\ g.graphEdges[i].targetNode \in 1..Len(g.graphNodes)
\* every link of serialized graph data names the id of one of its nodes at each end
linksWithinNodes(json) ==
  \A i \in 1..Len(json.links) :
    /\ \E n \in 1..Len(json.nodes) : json.nodes[n].id = json.links[i].source
    /\ \E n \in 1..Len(json.nodes) : json.nodes[n].id = json.links[i].target
\* every link of a graph of node objects has the id of one of its nodes at each end
endsWithinNodes(h, graph) ==
  \A i \in 1..Len(graph.links) :
    /\ \E n \in 1..Len(graph.nodes) : h[graph.nodes[n]].id = endId(h, graph.links[i].source)
    /\ \E n \in 1..Len(graph.nodes) : h[graph.nodes[n]].id = endId(h, graph.links[i].target)

\* C38: the two nodes of every edge of a CodeGraph are in its node list, so every
\* link of its serialization names the id of a serialized node at each end; and
\* when the target and the source of mergeGraphData both have their links within
\* their nodes, so has the target after the merge.
C38_ReferentialIntegrity ==
  /\ [](edgesWithinNodes(cg) /\ linksWithinNodes(toJsonObject(cg)))
  /\ [][phase = "received" /\ phase' = "idle"
          /\ endsWithinNodes(heap, data) /\ endsWithinNodes(heap, resp)
        => endsWithinNodes(heap', data')]_vars
\* the answers of two analyses were merged and the data holds two nodes and two
\* links between them
C38_Witness ==
  /\ phase = "idle"
  /\ loads = 2
  /\ Len(data.nodes) = 2
  /\ Len(data.links) = 2
  /\ endsWithinNodes(heap, data)


\* C39: a merge writes to no node object and no link of a graph it was handed as
\* a source, in that call or in a later one.  Every node object of the heap was
\* allocated for an analysis result, and the data of the view holds the objects
\* of the results merged before by reference; so the claim asks that a merge
\* leaves every object of the heap and the links of its source as they are.
C39_SourceUntouched ==
  [][phase = "received" /\ phase' = "idle" =>
       /\ \A a \in 1..Len(heap) : heap'[a] = heap[a]
       /\ resp' = resp]_vars

====
